---- MODULE Spec2Model ----
(***************************************************************************)
(* Extraction-and-diff engine of the GraphQL / Pydantic validator.         *)
(*                                                                         *)
(* Text is modelled at token granularity: a string is a sequence of        *)
(* tokens, "NL" is a line break (the only whitespace token), "#" opens a   *)
(* line comment that runs to the next "NL", "ESC" is a backslash escape    *)
(* written in host source text (the host parser turns it into a line       *)
(* break, the GraphQL lexer rejects it).  A character offset of the code   *)
(* is a token offset here, a column is a token column.                     *)
(***************************************************************************)
EXTENDS Integers, Sequences, FiniteSets, TLC

None == "None"

\* ------------------------------------------------------------------------
\* Token-level text helpers
\* ------------------------------------------------------------------------

RECURSIVE CountTok(_, _)
\* str.count(tok)
CountTok(s, tok) ==
    IF s = <<>> THEN 0
    ELSE (IF Head(s) = tok THEN 1 ELSE 0) + CountTok(Tail(s), tok)

\* str[:n].count("\n")
NewlinesBefore(s, n) ==
    CountTok(SubSeq(s, 1, IF n < Len(s) THEN n ELSE Len(s)), "NL")

RECURSIVE LStrip(_)
LStrip(s) == IF s # <<>> /\ Head(s) = "NL" THEN LStrip(Tail(s)) ELSE s

RECURSIVE RStrip(_)
RStrip(s) ==
    IF s # <<>> /\ s[Len(s)] = "NL" THEN RStrip(SubSeq(s, 1, Len(s) - 1)) ELSE s

\* str.strip()
Strip(s) == RStrip(LStrip(s))

\* str.splitlines(): the lines of a text, without their line breaks
RECURSIVE SplitLinesAcc(_, _)
SplitLinesAcc(s, cur) ==
    IF s = <<>> THEN (IF cur = <<>> THEN <<>> ELSE <<cur>>)
    ELSE IF Head(s) = "NL" THEN <<cur>> \o SplitLinesAcc(Tail(s), <<>>)
    ELSE SplitLinesAcc(Tail(s), Append(cur, Head(s)))

SplitLines(s) == SplitLinesAcc(s, <<>>)

\* needle in hay (substring test)
IsInfix(needle, hay) ==
    \E i \in 0..(Len(hay) - Len(needle)) :
        SubSeq(hay, i + 1, i + Len(needle)) = needle

OpKeywords == {"query", "mutation", "subscription"}
DefKeywords == OpKeywords \cup {"fragment"}

\* value.strip().lower().startswith(("query","mutation","subscription","fragment"))
StartsWithKeyword(s) == Strip(s) # <<>> /\ Head(Strip(s)) \in DefKeywords

\* value.count("{") > 0 and value.count("}") > 0 and the two counts agree
BalancedBraces(s) ==
    /\ CountTok(s, "{") > 0
    /\ CountTok(s, "}") > 0
    /\ CountTok(s, "{") = CountTok(s, "}")

\* ------------------------------------------------------------------------
\* graphql.parse: lexer and recursive-descent parser of executable documents
\* ------------------------------------------------------------------------

Punct == {"{", "}", "...", "(", ")", ":", "Q1", "Q3"}
IsName(tok) == tok \notin Punct \cup {"NL", "#", "ESC"}

RECURSIVE LexAcc(_, _, _, _, _)
\* significant tokens with their offset, 1-based line and 1-based column;
\* comments and line breaks are skipped
LexAcc(s, i, line, col, inComment) ==
    IF i > Len(s) THEN <<>>
    ELSE IF s[i] = "NL" THEN LexAcc(s, i + 1, line + 1, 1, FALSE)
    ELSE IF inComment THEN LexAcc(s, i + 1, line, col + 1, TRUE)
    ELSE IF s[i] = "#" THEN LexAcc(s, i + 1, line, col + 1, TRUE)
    ELSE <<[tok |-> s[i], idx |-> i, line |-> line, column |-> col]>>
            \o LexAcc(s, i + 1, line, col + 1, FALSE)

Lex(s) == LexAcc(s, 1, 1, 1, FALSE)

ParseFail == [ok |-> FALSE, next |-> 0]

MkNode(kind, name, tc, sels, hasSel, t) ==
    [kind |-> kind, name |-> name, type_condition |-> tc, selections |-> sels,
     has_selection_set |-> hasSel, line |-> t.line, column |-> t.column]

TokIs(L, i, tok) == i <= Len(L) /\ L[i].tok = tok
NameAt(L, i) == i <= Len(L) /\ IsName(L[i].tok)

RECURSIVE ArgumentsFrom(_, _)
\* arguments name: value ... up to the closing parenthesis: the index behind
\* it (0: a syntax error)
ArgumentsFrom(L, j) ==
    IF NameAt(L, j) /\ TokIs(L, j + 1, ":") /\ NameAt(L, j + 2)
    THEN (IF TokIs(L, j + 3, ")") THEN j + 4 ELSE ArgumentsFrom(L, j + 3))
    ELSE 0

\* the index behind the optional arguments of a field (0: a syntax error)
AfterArguments(L, i) == IF TokIs(L, i, "(") THEN ArgumentsFrom(L, i + 1) ELSE i

\* a field whose name is at i and whose arguments end before a
FieldShape(L, i, a) ==
    IF a = 0
    THEN [ok |-> FALSE, kind |-> None, name |-> None, tc |-> None, setAt |-> 0, next |-> 0]
    ELSE [ok |-> TRUE, kind |-> "Field", name |-> L[i].tok, tc |-> None,
          setAt |-> IF TokIs(L, a, "{") THEN a ELSE 0, next |-> a]

\* what stands at i: the kind of selection, its name or type condition, and
\* the index of its selection set (0: none)
SelectionShape(L, i) ==
    IF TokIs(L, i, "...") THEN
        IF TokIs(L, i + 1, "on") /\ NameAt(L, i + 2)
        THEN [ok |-> TRUE, kind |-> "InlineFragment", name |-> None,
              tc |-> L[i + 2].tok, setAt |-> i + 3, next |-> 0]
        ELSE IF TokIs(L, i + 1, "{")
        THEN [ok |-> TRUE, kind |-> "InlineFragment", name |-> None,
              tc |-> None, setAt |-> i + 1, next |-> 0]
        ELSE IF NameAt(L, i + 1) /\ ~TokIs(L, i + 1, "on")
        THEN [ok |-> TRUE, kind |-> "FragmentSpread", name |-> L[i + 1].tok,
              tc |-> None, setAt |-> 0, next |-> i + 2]
        ELSE [ok |-> FALSE, kind |-> None, name |-> None, tc |-> None, setAt |-> 0, next |-> 0]
    ELSE IF NameAt(L, i) THEN FieldShape(L, i, AfterArguments(L, i + 1))
    ELSE [ok |-> FALSE, kind |-> None, name |-> None, tc |-> None, setAt |-> 0, next |-> 0]

RECURSIVE ParseSelection(_, _), ParseSelections(_, _), ParseSelectionSet(_, _)

\* r: the selections read after an opening brace
CloseSelectionSet(L, r) ==
    IF r.ok /\ Len(r.sels) > 0 /\ TokIs(L, r.next, "}")
    THEN [ok |-> TRUE, sels |-> r.sels, next |-> r.next + 1]
    ELSE ParseFail

ParseSelectionSet(L, i) ==
    IF TokIs(L, i, "{") THEN CloseSelectionSet(L, ParseSelections(L, i + 1)) ELSE ParseFail

ConsSelection(s, rest) ==
    IF rest.ok
    THEN [ok |-> TRUE, sels |-> <<s.node>> \o rest.sels, next |-> rest.next]
    ELSE ParseFail

SelectionsAfter(L, s) ==
    IF s.ok THEN ConsSelection(s, ParseSelections(L, s.next)) ELSE ParseFail

ParseSelections(L, i) ==
    IF i > Len(L) \/ L[i].tok = "}"
    THEN [ok |-> TRUE, sels |-> <<>>, next |-> i]
    ELSE SelectionsAfter(L, ParseSelection(L, i))

SelectionWithSet(L, i, shape, ss) ==
    IF ss.ok
    THEN [ok |-> TRUE, next |-> ss.next,
          node |-> MkNode(shape.kind, shape.name, shape.tc, ss.sels, TRUE, L[i])]
    ELSE ParseFail

SelectionOf(L, i, shape) ==
    IF ~shape.ok THEN ParseFail
    ELSE IF shape.setAt = 0
    THEN [ok |-> TRUE, next |-> shape.next,
          node |-> MkNode(shape.kind, shape.name, None, <<>>, FALSE, L[i])]
    ELSE SelectionWithSet(L, i, shape, ParseSelectionSet(L, shape.setAt))

ParseSelection(L, i) == SelectionOf(L, i, SelectionShape(L, i))

\* what stands at i: shorthand query, operation with or without a name,
\* fragment; setAt is the index of the selection set
DefinitionShape(L, i) ==
    IF TokIs(L, i, "{")
    THEN [ok |-> TRUE, is_operation |-> TRUE, operation |-> "query", name |-> None,
          tc |-> None, setAt |-> i]
    ELSE IF L[i].tok \in OpKeywords
    THEN IF NameAt(L, i + 1)
         THEN [ok |-> TRUE, is_operation |-> TRUE, operation |-> L[i].tok,
               name |-> L[i + 1].tok, tc |-> None, setAt |-> i + 2]
         ELSE [ok |-> TRUE, is_operation |-> TRUE, operation |-> L[i].tok,
               name |-> None, tc |-> None, setAt |-> i + 1]
    ELSE IF /\ L[i].tok = "fragment"
            /\ NameAt(L, i + 1) /\ ~TokIs(L, i + 1, "on")
            /\ TokIs(L, i + 2, "on") /\ NameAt(L, i + 3)
    THEN [ok |-> TRUE, is_operation |-> FALSE, operation |-> None,
          name |-> L[i + 1].tok, tc |-> L[i + 3].tok, setAt |-> i + 4]
    ELSE [ok |-> FALSE, is_operation |-> FALSE, operation |-> None, name |-> None,
          tc |-> None, setAt |-> 0]

\* one definition: loc_start / loc_end are defn.loc.start / defn.loc.end
MkDef(shape, ss, L, i) ==
    IF ss.ok
    THEN [ok |-> TRUE, next |-> ss.next,
          def |-> [is_operation |-> shape.is_operation, operation |-> shape.operation,
                   name |-> shape.name, type_condition |-> shape.tc,
                   selections |-> ss.sels,
                   loc_start |-> L[i].idx - 1, loc_end |-> L[ss.next - 1].idx]]
    ELSE ParseFail

DefinitionOf(L, i, shape) ==
    IF shape.ok THEN MkDef(shape, ParseSelectionSet(L, shape.setAt), L, i) ELSE ParseFail

ParseDefinition(L, i) == DefinitionOf(L, i, DefinitionShape(L, i))

RECURSIVE ParseDefinitions(_, _)

ConsDefinition(d, rest) ==
    IF rest.ok THEN [ok |-> TRUE, defs |-> <<d.def>> \o rest.defs]
    ELSE [ok |-> FALSE, defs |-> <<>>]

DefinitionsAfter(L, d) ==
    IF d.ok THEN ConsDefinition(d, ParseDefinitions(L, d.next))
    ELSE [ok |-> FALSE, defs |-> <<>>]

ParseDefinitions(L, i) ==
    IF i > Len(L) THEN [ok |-> TRUE, defs |-> <<>>]
    ELSE DefinitionsAfter(L, ParseDefinition(L, i))

ParseTokens(L) ==
    IF L = <<>> THEN [ok |-> FALSE, defs |-> <<>>] ELSE ParseDefinitions(L, 1)

\* parse(text): ok = FALSE stands for a raised GraphQLError
parse(text) == ParseTokens(Lex(text))

\* ------------------------------------------------------------------------
\* Host source files: a sequence of statements, rendered to text
\* ------------------------------------------------------------------------
\* Expressions: [k |-> "Const", quote, toks] (quote "Q1": single line, line
\* breaks written as ESC; "Q3": triple quoted, real line breaks),
\* [k |-> "Name", id], [k |-> "BinOp", left, right] (string concatenation).

Const(quote, toks) == [k |-> "Const", quote |-> quote, toks |-> toks]
Name(id) == [k |-> "Name", id |-> id]
BinOp(l, r) == [k |-> "BinOp", left |-> l, right |-> r]

RECURSIVE RenderExpr(_)
RenderExpr(e) ==
    IF e.k = "Const" THEN <<e.quote>> \o e.toks \o <<e.quote>>
    ELSE IF e.k = "Name" THEN <<e.id>>
    ELSE RenderExpr(e.left) \o <<"+">> \o RenderExpr(e.right)

\* tokens a statement puts before its expression
StmtPrefix(st) ==
    IF st.form = "assign" THEN <<st.target, "=">>
    ELSE IF st.form = "assign_gql" THEN <<st.target, "=", "gql", "(">>
    ELSE IF st.form = "return" THEN <<"def", "return">>
    ELSE <<>>

StmtSuffix(st) == IF st.form = "assign_gql" THEN <<")", "NL">> ELSE <<"NL">>

RenderStmt(st) == StmtPrefix(st) \o RenderExpr(st.expr) \o StmtSuffix(st)

RECURSIVE RenderFile(_)
\* the text of a host file
RenderFile(stmts) ==
    IF stmts = <<>> THEN <<>> ELSE RenderStmt(Head(stmts)) \o RenderFile(Tail(stmts))

\* offset in the file text at which the expression of statement n starts
ExprOffset(stmts, n) == Len(RenderFile(SubSeq(stmts, 1, n - 1))) + Len(StmtPrefix(stmts[n]))

\* number of lines of a text: len(text.splitlines())
FileLines(text) == Len(SplitLines(text))

\* offset_to_line(offset): source[:offset].count("\n") + 1
offset_to_line(text, offset) == NewlinesBefore(text, offset) + 1

\* node.lineno / node.end_lineno of the expression that starts at offset off
Lineno(text, e, off) == offset_to_line(text, off)
EndLineno(text, e, off) == offset_to_line(text, off + Len(RenderExpr(e)) - 1)

RECURSIVE Decode(_)
\* the value the host parser gives a string literal: escapes become line breaks
Decode(toks) ==
    IF toks = <<>> THEN <<>>
    ELSE <<IF Head(toks) = "ESC" THEN "NL" ELSE Head(toks)>> \o Decode(Tail(toks))

NoValue == [ok |-> FALSE, val |-> <<>>]

RECURSIVE ResolveFrom(_, _)
ResolveFrom(var, stmts) ==
    IF stmts = <<>> THEN NoValue
    ELSE IF /\ Head(stmts).form = "assign"
            /\ Head(stmts).target = var
            /\ Head(stmts).expr.k = "Const"
         THEN [ok |-> TRUE, val |-> Decode(Head(stmts).expr.toks)]
         ELSE ResolveFrom(var, Tail(stmts))

\* the first simple string-literal assignment to var_name, or None
resolve_variable_from_source(var, stmts) == ResolveFrom(var, stmts)

RECURSIVE extract_string_and_line_from_node(_, _, _, _)
\* (string_value, start_line, end_line) of an expression node; ok = FALSE is
\* a string_value of None
extract_string_and_line_from_node(e, off, stmts, text) ==
    IF e.k = "Const"
    THEN [ok |-> TRUE, val |-> Decode(e.toks),
          start |-> Lineno(text, e, off), end |-> EndLineno(text, e, off)]
    ELSE IF e.k = "BinOp"
    THEN LET l == extract_string_and_line_from_node(e.left, off, stmts, text)
             roff == off + Len(RenderExpr(e.left)) + 1
             r == extract_string_and_line_from_node(e.right, roff, stmts, text)
             lv == IF ~l.ok /\ e.left.k = "Name"
                   THEN resolve_variable_from_source(e.left.id, stmts)
                   ELSE [ok |-> l.ok, val |-> l.val]
             rv == IF ~r.ok /\ e.right.k = "Name"
                   THEN resolve_variable_from_source(e.right.id, stmts)
                   ELSE [ok |-> r.ok, val |-> r.val]
         IN IF lv.ok /\ rv.ok
            THEN [ok |-> TRUE, val |-> lv.val \o rv.val, start |-> l.start, end |-> r.end]
            ELSE [ok |-> FALSE, val |-> <<>>,
                  start |-> Lineno(text, e, off), end |-> EndLineno(text, e, off)]
    ELSE [ok |-> FALSE, val |-> <<>>,
          start |-> Lineno(text, e, off), end |-> EndLineno(text, e, off)]

RECURSIVE extract_concatenated_string(_)
\* literal-only concatenation: None unless every operand is a string literal
extract_concatenated_string(e) ==
    IF e.k = "Const" THEN [ok |-> TRUE, val |-> Decode(e.toks)]
    ELSE IF e.k = "BinOp"
    THEN LET l == extract_concatenated_string(e.left)
             r == extract_concatenated_string(e.right)
         IN IF l.ok /\ r.ok THEN [ok |-> TRUE, val |-> l.val \o r.val] ELSE NoValue
    ELSE NoValue

\* ------------------------------------------------------------------------
\* OperationParser: _extract_graphql_defs
\* ------------------------------------------------------------------------

NoOffset == -1

\* the outermost quotes of a block are dropped when both ends carry them
StripQuotes(c) ==
    IF c # <<>> /\ Head(c) = "Q3" /\ c[Len(c)] = "Q3" THEN SubSeq(c, 2, Len(c) - 1)
    ELSE IF c # <<>> /\ Head(c) = "Q1" /\ c[Len(c)] = "Q1" THEN SubSeq(c, 2, Len(c) - 1)
    ELSE c

CleanBlock(block) == StripQuotes(Strip(block))

\* length of the prefix of the cleaned block searched for in the file lines
ErrPrefixLen == 20

Prefix(s, n) == SubSeq(s, 1, IF n < Len(s) THEN n ELSE Len(s))

Max(a, b) == IF a > b THEN a ELSE b
Min(a, b) == IF a < b THEN a ELSE b

\* best-effort line of an unparseable string: the first line among the 20
\* around start_line that contains the start of the cleaned text
ErrorLine(cleaned, start_line, hasSource, text) ==
    IF hasSource /\ text # <<>> /\ cleaned # <<>>
    THEN LET lines == SplitLines(text)
             lo == Max(0, start_line - 10) + 1
             hi == Min(Len(lines), start_line + 10)
             base == Max(1, start_line - 9)
             hits == {i \in lo..hi : IsInfix(Prefix(cleaned, ErrPrefixLen), lines[i])}
         IN IF hits = {} THEN start_line
            ELSE base + ((CHOOSE i \in hits : \A j \in hits : i <= j) - lo)
    ELSE start_line

UnknownBlock(cleaned, line) ==
    [type |-> "unknown", name |-> None, type_condition |-> None, raw |-> cleaned,
     start_line |-> line, end_line |-> line, error |-> "GraphQLSyntaxError"]

\* the block of one parsed definition, with its line span
DefBlock(defn, block, cleaned, start_line, string_offset, hasSource, text) ==
    LET definition_content == SubSeq(cleaned, defn.loc_start + 1, defn.loc_end)
        lines_before_definition == NewlinesBefore(cleaned, defn.loc_start)
        lines_in_definition == CountTok(definition_content, "NL")
        sb == Strip(block)
        is_multiline ==
            \/ CountTok(cleaned, "NL") > 0
            \/ (sb # <<>> /\ Head(sb) = "Q3" /\ sb[Len(sb)] = "Q3")
        precise_start ==
            IF string_offset # NoOffset /\ hasSource
            THEN NewlinesBefore(text, string_offset + defn.loc_start) + 1
            ELSE IF is_multiline THEN start_line + lines_before_definition + 1
            ELSE start_line
    IN [type |-> IF defn.is_operation THEN defn.operation ELSE "fragment",
        name |-> defn.name, type_condition |-> defn.type_condition,
        raw |-> definition_content,
        start_line |-> precise_start, end_line |-> precise_start + lines_in_definition,
        error |-> None]

RECURSIVE DefBlocks(_, _, _, _, _, _, _)
DefBlocks(defs, block, cleaned, start_line, string_offset, hasSource, text) ==
    IF defs = <<>> THEN <<>>
    ELSE <<DefBlock(Head(defs), block, cleaned, start_line, string_offset, hasSource, text)>>
            \o DefBlocks(Tail(defs), block, cleaned, start_line, string_offset, hasSource, text)

\* a parser step that drops an unparseable string
extract_graphql_defs_dropping(block, start_line, end_line, gql_blocks, string_offset, hasSource, text) ==
    LET cleaned == CleanBlock(block)
        doc == parse(cleaned)
    IN IF doc.ok
       THEN gql_blocks \o DefBlocks(doc.defs, block, cleaned, start_line, string_offset, hasSource, text)
       ELSE gql_blocks

\* gql_blocks after _extract_graphql_defs(block, start_line, end_line, gql_blocks,
\* string_offset, file_source); hasSource = FALSE is file_source = None
extract_graphql_defs(block, start_line, end_line, gql_blocks, string_offset, hasSource, text) ==
    LET cleaned == CleanBlock(block)
        doc == parse(cleaned)
    IN IF doc.ok
       THEN gql_blocks \o DefBlocks(doc.defs, block, cleaned, start_line, string_offset, hasSource, text)
       ELSE Append(gql_blocks, UnknownBlock(cleaned, ErrorLine(cleaned, start_line, hasSource, text)))

\* ------------------------------------------------------------------------
\* Deduplicator
\* ------------------------------------------------------------------------

RECURSIVE StripComments(_, _)
\* re.sub(r"#.*", "", raw)
StripComments(s, inComment) ==
    IF s = <<>> THEN <<>>
    ELSE IF Head(s) = "NL" THEN <<"NL">> \o StripComments(Tail(s), FALSE)
    ELSE IF inComment \/ Head(s) = "#" THEN StripComments(Tail(s), TRUE)
    ELSE <<Head(s)>> \o StripComments(Tail(s), FALSE)

\* comments removed, then all whitespace removed
normalize_model_body(raw) == SelectSeq(StripComments(raw, FALSE), LAMBDA t : t # "NL")

GraphqlTypes == {"query", "mutation", "subscription", "fragment", "unknown"}
ModelTypes == {"BaseModel/RootModel", "PydanticDataclass", "dataclass"}

GraphqlKey(b) == <<b.type, b.name, normalize_model_body(b.raw)>>
ModelKey(m) == <<m.model_name, normalize_model_body(m.raw), m.type>>

\* does the incoming block replace the one already kept under its key
ReplacesKept(incoming, kept) == incoming.start_line < kept.start_line

RECURSIVE DedupInto(_, _, _)
\* the values of the seen dict, in insertion order, after the loop over blocks
DedupInto(blocks, acc, isModel) ==
    IF blocks = <<>> THEN acc
    ELSE LET b == Head(blocks)
             k == IF isModel THEN ModelKey(b) ELSE GraphqlKey(b)
             same == {i \in 1..Len(acc) :
                        (IF isModel THEN ModelKey(acc[i]) ELSE GraphqlKey(acc[i])) = k}
         IN IF same = {} THEN DedupInto(Tail(blocks), Append(acc, b), isModel)
            ELSE LET i == CHOOSE j \in same : TRUE IN
                 IF ReplacesKept(b, acc[i])
                 THEN DedupInto(Tail(blocks), [acc EXCEPT ![i] = b], isModel)
                 ELSE DedupInto(Tail(blocks), acc, isModel)

RECURSIVE InsertByLine(_, _)
InsertByLine(b, sorted) ==
    IF sorted = <<>> THEN <<b>>
    ELSE IF b.start_line < Head(sorted).start_line THEN <<b>> \o sorted
    ELSE <<Head(sorted)>> \o InsertByLine(b, Tail(sorted))

RECURSIVE SortByLine(_)
\* list.sort(key = start_line): stable, ascending
SortByLine(s) ==
    IF s = <<>> THEN <<>>
    ELSE InsertByLine(s[Len(s)], SortByLine(SubSeq(s, 1, Len(s) - 1)))

\* deduplicate_and_sort_results on a list of blocks and models
deduplicate_and_sort_results(results) ==
    LET graphql_blocks == SelectSeq(results, LAMBDA r : r.type \in GraphqlTypes)
        pydantic_models == SelectSeq(results, LAMBDA r : r.type \in ModelTypes)
    IN SortByLine(DedupInto(graphql_blocks, <<>>, FALSE))
         \o SortByLine(DedupInto(pydantic_models, <<>>, TRUE))

\* ------------------------------------------------------------------------
\* BlockExtractor: the strategies of extract_graphql_blocks.  Each strategy
\* yields, in the order of the code, the strings it hands to
\* _extract_graphql_defs together with the arguments of that call.
\* ------------------------------------------------------------------------

Cand(block, start_line, end_line, string_offset, hasSource) ==
    [block |-> block, start_line |-> start_line, end_line |-> end_line,
     string_offset |-> string_offset, has_source |-> hasSource]

\* the literal a quote-delimited regex group captures at the start of e:
\* the leftmost string literal of the expression text
RECURSIVE LeftmostLeaf(_)
LeftmostLeaf(e) == IF e.k = "BinOp" THEN LeftmostLeaf(e.left) ELSE e

\* one regex match whose captured group (the raw text between the quotes)
\* starts at offset off0
RegexCand(lit, off0, text) ==
    Cand(lit.toks, offset_to_line(text, off0),
         offset_to_line(text, off0 + Len(lit.toks)), off0, TRUE)

RECURSIVE GqlRegexLoop(_, _, _)
\* strategies 1 and 2: gql(<quoted literal>), with or without an assignment
GqlRegexLoop(stmts, text, n) ==
    IF n > Len(stmts) THEN <<>>
    ELSE (IF stmts[n].form = "assign_gql" /\ stmts[n].expr.k = "Const"
          THEN <<RegexCand(stmts[n].expr, ExprOffset(stmts, n) + 1, text)>>
          ELSE <<>>) \o GqlRegexLoop(stmts, text, n + 1)

RECURSIVE AssignRegexLoop(_, _, _)
\* strategy 3: <query|mutation|subscription> = <quoted literal>
AssignRegexLoop(stmts, text, n) ==
    IF n > Len(stmts) THEN <<>>
    ELSE (IF /\ stmts[n].form = "assign"
             /\ stmts[n].target \in OpKeywords
             /\ LeftmostLeaf(stmts[n].expr).k = "Const"
          THEN <<RegexCand(LeftmostLeaf(stmts[n].expr), ExprOffset(stmts, n) + 1, text)>>
          ELSE <<>>) \o AssignRegexLoop(stmts, text, n + 1)

\* strategy 4, ast.Assign with a Name target: any resolved string with
\* balanced braces
AstAssign(stmts, text, n) ==
    LET v == extract_string_and_line_from_node(stmts[n].expr, ExprOffset(stmts, n), stmts, text)
    IN IF stmts[n].form = "assign" /\ v.ok /\ BalancedBraces(v.val)
       THEN <<Cand(v.val, Lineno(text, stmts[n].expr, ExprOffset(stmts, n)),
                   EndLineno(text, stmts[n].expr, ExprOffset(stmts, n)), NoOffset, TRUE)>>
       ELSE <<>>

\* strategy 4, ast.Return: a resolved string that starts with a keyword
AstReturn(stmts, text, n) ==
    LET v == extract_string_and_line_from_node(stmts[n].expr, ExprOffset(stmts, n), stmts, text)
    IN IF stmts[n].form = "return" /\ v.ok /\ StartsWithKeyword(v.val)
       THEN <<Cand(v.val, v.start, v.end, NoOffset, TRUE)>>
       ELSE <<>>

RECURSIVE AstWalkLoop(_, _, _, _)
\* ast.walk is breadth first: the module-level assignments come before the
\* return statements, which sit inside function bodies
AstWalkLoop(stmts, text, n, pass) ==
    IF n > Len(stmts)
    THEN (IF pass = 1 THEN AstWalkLoop(stmts, text, 1, 2) ELSE <<>>)
    ELSE (IF pass = 1 THEN AstAssign(stmts, text, n) ELSE AstReturn(stmts, text, n))
            \o AstWalkLoop(stmts, text, n + 1, pass)

RECURSIVE extract_dynamic_queries(_, _, _)
\* strategy 5: gql(<variable>), the variable resolved to a literal assignment
extract_dynamic_queries(stmts, text, n) ==
    IF n > Len(stmts) THEN <<>>
    ELSE (IF stmts[n].form = "assign_gql" /\ stmts[n].expr.k = "Name"
          THEN LET var_content == resolve_variable_from_source(stmts[n].expr.id, stmts)
                   m0 == ExprOffset(stmts, n) - 2
                   m1 == ExprOffset(stmts, n) + 2
               IN IF /\ var_content.ok /\ var_content.val # <<>>
                     /\ StartsWithKeyword(var_content.val)
                  THEN <<Cand(var_content.val, offset_to_line(text, m0),
                              offset_to_line(text, m1), NoOffset, TRUE)>>
                  ELSE <<>>
          ELSE <<>>) \o extract_dynamic_queries(stmts, text, n + 1)

\* the expression nodes of all statements with their offsets; depth is the
\* number of tree levels between the statement list and the expression
RootNodes(stmts) ==
    [n \in 1..Len(stmts) |->
        [e |-> stmts[n].expr, off |-> ExprOffset(stmts, n),
         depth |-> IF stmts[n].form = "return" THEN 2
                   ELSE IF stmts[n].form = "assign_gql" THEN 1 ELSE 0]]

RECURSIVE ChildNodes(_)
ChildNodes(nodes) ==
    IF nodes = <<>> THEN <<>>
    ELSE LET nd == Head(nodes) IN
         (IF nd.depth > 0 THEN <<[nd EXCEPT !.depth = nd.depth - 1]>>
          ELSE IF nd.e.k = "BinOp"
          THEN <<[e |-> nd.e.left, off |-> nd.off, depth |-> 0],
                 [e |-> nd.e.right, off |-> nd.off + Len(RenderExpr(nd.e.left)) + 1, depth |-> 0]>>
          ELSE <<>>)
         \o ChildNodes(Tail(nodes))

RECURSIVE ConcatLevel(_, _)
ConcatLevel(nodes, text) ==
    IF nodes = <<>> THEN <<>>
    ELSE LET nd == Head(nodes)
             cs == extract_concatenated_string(nd.e)
         IN (IF /\ nd.depth = 0 /\ nd.e.k = "BinOp"
                /\ cs.ok /\ cs.val # <<>> /\ StartsWithKeyword(cs.val)
             THEN <<Cand(cs.val, Lineno(text, nd.e, nd.off),
                         EndLineno(text, nd.e, nd.off), NoOffset, TRUE)>>
             ELSE <<>>) \o ConcatLevel(Tail(nodes), text)

RECURSIVE ConcatWalk(_, _)
ConcatWalk(nodes, text) ==
    IF nodes = <<>> THEN <<>>
    ELSE ConcatLevel(nodes, text) \o ConcatWalk(ChildNodes(nodes), text)

\* strategy 7: every concatenation node of the parse tree, nested ones too
extract_concatenated_queries(stmts, text) == ConcatWalk(RootNodes(stmts), text)

\* ast.parse(source) builds a tree: no statement of the file is malformed
SyntaxOk(stmts) == \A n \in 1..Len(stmts) : stmts[n].form # "syntax_error"

RECURSIVE ReturnRegexFallback(_, _, _)
\* strategy 4 when ast.parse raises: return <quoted literal that starts with
\* a keyword>; the block is the match without its first 7 characters, the
\* lines are those of the start and of the end of the match
ReturnRegexFallback(stmts, text, n) ==
    IF n > Len(stmts) THEN <<>>
    ELSE (IF /\ stmts[n].form = "return"
             /\ LeftmostLeaf(stmts[n].expr).k = "Const"
             /\ LeftmostLeaf(stmts[n].expr).toks # <<>>
             /\ Head(LeftmostLeaf(stmts[n].expr).toks) \in DefKeywords
          THEN <<Cand(RenderExpr(LeftmostLeaf(stmts[n].expr)),
                      offset_to_line(text, ExprOffset(stmts, n) - 1),
                      offset_to_line(text, ExprOffset(stmts, n)
                                             + Len(RenderExpr(LeftmostLeaf(stmts[n].expr)))),
                      NoOffset, TRUE)>>
          ELSE <<>>) \o ReturnRegexFallback(stmts, text, n + 1)

\* the calls made by the strategies that need no parse tree
RegexCandidates(stmts, text) ==
    GqlRegexLoop(stmts, text, 1) \o GqlRegexLoop(stmts, text, 1)
      \o AssignRegexLoop(stmts, text, 1)

\* the calls made by the strategies that walk the parse tree; when the tree
\* cannot be built strategy 4 falls back to a regex and the variable
\* resolver of strategy 5 and strategy 7 find nothing
TreeCandidates(stmts, text) ==
    IF SyntaxOk(stmts)
    THEN AstWalkLoop(stmts, text, 1, 1)
           \o extract_dynamic_queries(stmts, text, 1)
           \o extract_concatenated_queries(stmts, text)
    ELSE ReturnRegexFallback(stmts, text, 1)

\* the calls of _extract_graphql_defs that extract_graphql_blocks makes on a
\* host file, in order
HostCandidates(stmts) ==
    RegexCandidates(stmts, RenderFile(stmts)) \o TreeCandidates(stmts, RenderFile(stmts))

\* ------------------------------------------------------------------------
\* Schema snapshots
\* ------------------------------------------------------------------------
\* A schema is [query_type, mutation_type, subscription_type, types]; types
\* maps a type name to [has_fields, fields]; fields maps a field name to
\* [type, is_deprecated, deprecation_reason]; a field type is a sequence of
\* wrappers ("NonNull", "List") that ends with the name of the base type.

NoFields == [x \in {} |-> None]
NoType == [name |-> None, has_fields |-> FALSE, fields |-> NoFields]
NoSchema == [loaded |-> FALSE]

IsNoType(t) == t.name = None

\* schema.get_type(name): the type object, or None
get_type(schema, name) ==
    IF name \in DOMAIN schema.types
    THEN [name |-> name, has_fields |-> schema.types[name].has_fields,
          fields |-> schema.types[name].fields]
    ELSE NoType

\* a or b on two type objects
OrType(a, b) == IF IsNoType(a) THEN b ELSE a

RECURSIVE unwrap_type(_)
\* strip GraphQLNonNull / GraphQLList wrappers
unwrap_type(t) ==
    IF Len(t) > 1 /\ Head(t) \in {"NonNull", "List"} THEN unwrap_type(Tail(t)) ELSE Head(t)

\* str.lower() on the names used here
Lower(name) ==
    CASE name = "Email" -> "email"
      [] name = "Shop" -> "shop"
      [] name = "Customer" -> "customer"
      [] OTHER -> name

\* getattr(schema, "<op>_type", None) or schema.get_type(<conventional names>)
RootByAttr(schema, attr, fallbacks) ==
    IF attr # None /\ ~IsNoType(get_type(schema, attr)) THEN get_type(schema, attr)
    ELSE IF fallbacks = <<>> THEN NoType
    ELSE IF Len(fallbacks) = 1 THEN get_type(schema, fallbacks[1])
    ELSE OrType(get_type(schema, fallbacks[1]), get_type(schema, fallbacks[2]))

\* ------------------------------------------------------------------------
\* ClientClassifier: determine_client_type, regular expressions over raw
\* ------------------------------------------------------------------------

\* [A-Za-z0-9_]+
IsWord(tok) == IsName(tok) /\ tok \notin {"+", "=", "$"}

\* index of the first token at or after i that is not a line break
RECURSIVE SkipWs(_, _)
SkipWs(raw, i) == IF i <= Len(raw) /\ raw[i] = "NL" THEN SkipWs(raw, i + 1) ELSE i

TokAt(raw, i) == IF i >= 1 /\ i <= Len(raw) THEN raw[i] ELSE "EOF"

\* (query|mutation|subscription)\s+([A-Za-z0-9_]+)?\s*[{(] matched at i
OpRegexAt(raw, i) ==
    /\ raw[i] \in OpKeywords
    /\ LET j == SkipWs(raw, i + 1) IN
       \/ TokAt(raw, j) \in {"{", "("}
       \/ (IsWord(TokAt(raw, j)) /\ TokAt(raw, SkipWs(raw, j + 1)) \in {"{", "("})

\* fragment\s+([A-Za-z0-9_]+)\s+on\s+([A-Za-z0-9_]+) matched at i
FragmentRegexAt(raw, i) ==
    /\ raw[i] = "fragment"
    /\ LET j == SkipWs(raw, i + 1)
           k == SkipWs(raw, j + 1)
           l == SkipWs(raw, k + 1)
       IN IsWord(TokAt(raw, j)) /\ TokAt(raw, k) = "on" /\ IsWord(TokAt(raw, l))

\* {\s*([A-Za-z0-9_]+) matched at i
RootFieldRegexAt(raw, i) == raw[i] = "{" /\ IsWord(TokAt(raw, SkipWs(raw, i + 1)))

First(S) == CHOOSE i \in S : \A j \in S : i <= j

\* group 1 of the first match of the operation pattern, or None
OpTypeAt(raw, ms) == IF ms = {} THEN None ELSE raw[First(ms)]
OpTypeOf(raw) == OpTypeAt(raw, {i \in 1..Len(raw) : OpRegexAt(raw, i)})

\* the matches of the fragment pattern; group 2 of the first one
FragmentMatches(raw) == {i \in 1..Len(raw) : FragmentRegexAt(raw, i)}
FragmentTypeAt(raw, i) == raw[SkipWs(raw, SkipWs(raw, SkipWs(raw, i + 1) + 1) + 1)]
FragmentTypeOf(raw) == FragmentTypeAt(raw, First(FragmentMatches(raw)))

\* group 1 of the first match of the root field pattern, or None
RootFieldAt(raw, m2) == IF m2 = {} THEN None ELSE raw[SkipWs(raw, First(m2) + 1)]
RootFieldOf(raw) == RootFieldAt(raw, {i \in 1..Len(raw) : RootFieldRegexAt(raw, i)})

NoSchemasGiven(old_admin_schema, old_storefront_schema) ==
    ~old_admin_schema.loaded \/ ~old_storefront_schema.loaded

UniqueSurface(in_admin, in_storefront) ==
    IF in_admin /\ ~in_storefront THEN "Admin"
    ELSE IF in_storefront /\ ~in_admin THEN "Storefront"
    ELSE "Unknown"

\* lines 88-103: the block holds a fragment header
ClassifyFragment(fragment_type, old_admin_schema, old_storefront_schema) ==
    IF NoSchemasGiven(old_admin_schema, old_storefront_schema) THEN "Unknown"
    ELSE UniqueSurface(~IsNoType(get_type(old_admin_schema, fragment_type)),
                       ~IsNoType(get_type(old_storefront_schema, fragment_type)))

\* the root type the classifier takes for an operation keyword
ClassifierRoot(schema, op_type) ==
    IF op_type = "query"
    THEN RootByAttr(schema, schema.query_type, <<"QueryRoot", "Query">>)
    ELSE IF op_type = "mutation"
    THEN RootByAttr(schema, schema.mutation_type, <<"Mutation">>)
    ELSE RootByAttr(schema, schema.subscription_type, <<"Subscription">>)

HasRootField(root, root_field) == root.has_fields /\ root_field \in DOMAIN root.fields

\* lines 105-169: no fragment header in the block
ClassifyOperation(op_type, root_field, old_admin_schema, old_storefront_schema) ==
    IF NoSchemasGiven(old_admin_schema, old_storefront_schema) THEN "Unknown"
    ELSE IF op_type \in OpKeywords /\ root_field # None
    THEN UniqueSurface(HasRootField(ClassifierRoot(old_admin_schema, op_type), root_field),
                       HasRootField(ClassifierRoot(old_storefront_schema, op_type), root_field))
    ELSE "Unknown"

\* the classifier on a raw text, given the two old schemas (or none)
determine_client_type(raw, old_admin_schema, old_storefront_schema) ==
    IF FragmentMatches(raw) # {}
    THEN ClassifyFragment(FragmentTypeOf(raw), old_admin_schema, old_storefront_schema)
    ELSE ClassifyOperation(OpTypeOf(raw), RootFieldOf(raw),
                           old_admin_schema, old_storefront_schema)

\* ------------------------------------------------------------------------
\* SchemaWalker: traverse_schema, one call per step
\* ------------------------------------------------------------------------
\* A frame is one pending call: [node, parent_type, schema_name,
\* recursion_depth, origin]; origin is the index of the block whose text
\* holds the node (a fragment's nodes keep the index of the fragment's block).

MaxRecursionDepth == 10

NoField == [present |-> FALSE, type |-> <<None>>, is_deprecated |-> FALSE,
            deprecation_reason |-> None]

Frame(node, parent_type, schema_name, recursion_depth, origin) ==
    [node |-> node, parent_type |-> parent_type, schema_name |-> schema_name,
     recursion_depth |-> recursion_depth, origin |-> origin]

OldSchema(schemas, schema_name) ==
    IF schema_name = "Admin" THEN schemas.old_admin ELSE schemas.old_storefront

NewSchema(schemas, schema_name) ==
    IF schema_name = "Admin" THEN schemas.new_admin ELSE schemas.new_storefront

\* a guard that cuts one level early
DepthGuardTight(recursion_depth) == recursion_depth >= MaxRecursionDepth

\* a guard that lets one more level through
DepthGuardLoose(recursion_depth) == recursion_depth > MaxRecursionDepth + 1

\* if recursion_depth > 10: return
DepthExceeded(recursion_depth) == recursion_depth > MaxRecursionDepth

\* schema_field_map.get(field_name.lower()): the key of the parent's field
\* whose lower-cased name is the lower-cased selected name
KeyIn(ks) == IF ks = {} THEN None ELSE CHOOSE k \in ks : TRUE

schema_field_key(parent_type, field_name) ==
    KeyIn(IF parent_type.has_fields
          THEN {k \in DOMAIN parent_type.fields : Lower(k) = Lower(field_name)}
          ELSE {})

OldFieldAt(parent_type, key) ==
    IF ~IsNoType(parent_type) /\ parent_type.has_fields /\ key # None
    THEN parent_type.fields[key] ELSE NoField

old_field(parent_type, field_name) ==
    OldFieldAt(parent_type, schema_field_key(parent_type, field_name))

FieldOrNone(t, name) ==
    IF name # None /\ name \in DOMAIN t.fields THEN t.fields[name] ELSE NoField

FirstPresent(a, b) == IF a.present THEN a ELSE b

NewFieldAt(new_parent_type, key, field_name) ==
    IF ~IsNoType(new_parent_type) /\ new_parent_type.has_fields
    THEN FirstPresent(FieldOrNone(new_parent_type, key),
                      FieldOrNone(new_parent_type, field_name))
    ELSE NoField

new_field(parent_type, field_name, new_schema) ==
    NewFieldAt(IF IsNoType(parent_type) THEN NoType
               ELSE get_type(new_schema, parent_type.name),
               schema_field_key(parent_type, field_name), field_name)

\* the add_warning calls of a field node, in the order they are made
FieldFindings(old, new) ==
    (IF old.present /\ (old.is_deprecated \/ old.deprecation_reason # None)
     THEN <<[kind |-> "DEPRECATED",
             reason |-> <<"is deprecated in old schema", old.deprecation_reason>>]>>
     ELSE <<>>)
    \o (IF old.present /\ ~new.present
        THEN <<[kind |-> "REMOVED", reason |-> <<"was removed in new schema">>]>>
        ELSE <<>>)
    \o (IF ~old.present /\ new.present
        THEN <<[kind |-> "ADDED", reason |-> <<"was added in new schema">>]>>
        ELSE <<>>)

\* the recursive calls of one call, in the order they are made
ChildFrames(sels, parent_type, fr) ==
    [i \in 1..Len(sels) |->
        Frame(sels[i], parent_type, fr.schema_name, fr.recursion_depth + 1, fr.origin)]

\* the calls under a type looked up by name in the old and the new schema
ChildrenUnder(sels, schema_type_old, schema_type_new, fr) ==
    ChildFrames(sels, OrType(schema_type_old, schema_type_new), fr)

TypedChildren(fr, type_name, schemas) ==
    ChildrenUnder(fr.node.selections,
                  get_type(OldSchema(schemas, fr.schema_name), type_name),
                  get_type(NewSchema(schemas, fr.schema_name), type_name), fr)

FieldTypeName(old, new) == unwrap_type(IF old.present THEN old.type ELSE new.type)

FieldChildrenOfType(fr, type_name, schemas) ==
    IF /\ IsNoType(get_type(OldSchema(schemas, fr.schema_name), type_name))
       /\ IsNoType(get_type(NewSchema(schemas, fr.schema_name), type_name))
    THEN <<>>
    ELSE TypedChildren(fr, type_name, schemas)

FieldChildren(fr, old, new, schemas) ==
    IF ~fr.node.has_selection_set THEN <<>>
    ELSE FieldChildrenOfType(fr, FieldTypeName(old, new), schemas)

InlineFragmentChildren(fr, schemas) ==
    IF fr.node.type_condition = None THEN <<>>
    ELSE TypedChildren(fr, fr.node.type_condition, schemas)

\* fragment_definitions maps a fragment name to [def, origin]
SpreadChildren(fr, found, schemas) ==
    ChildrenUnder(found.def.selections,
                  get_type(OldSchema(schemas, fr.schema_name), found.def.type_condition),
                  get_type(NewSchema(schemas, fr.schema_name), found.def.type_condition),
                  [fr EXCEPT !.origin = found.origin])

FragmentSpreadChildren(fr, schemas, fragment_definitions) ==
    IF fr.node.name \notin DOMAIN fragment_definitions THEN <<>>
    ELSE SpreadChildren(fr, fragment_definitions[fr.node.name], schemas)

\* add_warning: the key, the seen set and the appended record
WarningKey(w) == <<w.file, w.line, w.column, w.type, w.field, w.reason, w.kind>>

Warning(f, fr, target_file, start_line) ==
    [file |-> target_file, line |-> start_line + fr.node.line,
     column |-> fr.node.column + 1, level |-> "warning",
     kind |-> f.kind, field |-> fr.node.name, type |-> fr.parent_type.name,
     reason |-> f.reason, client_info |-> fr.schema_name]

\* st = [seen, warnings, sites]; sites records, for each warning, the node it
\* was raised for: <<origin, line, column>> of the node in its block
add_warning(w, fr, st) ==
    IF WarningKey(w) \in st.seen THEN st
    ELSE [seen |-> st.seen \cup {WarningKey(w)},
          warnings |-> Append(st.warnings, w),
          sites |-> Append(st.sites, <<fr.origin, fr.node.line, fr.node.column>>)]

RECURSIVE AddWarnings(_, _, _, _, _)
AddWarnings(findings, fr, target_file, start_line, st) ==
    IF findings = <<>> THEN st
    ELSE AddWarnings(Tail(findings), fr, target_file, start_line,
                     add_warning(Warning(Head(findings), fr, target_file, start_line),
                                 fr, st))

\* get_root_type(operation, schema)
get_root_type(operation, schema) ==
    IF operation = "query"
    THEN RootByAttr(schema, schema.query_type, <<"QueryRoot", "Query">>)
    ELSE IF operation = "mutation"
    THEN RootByAttr(schema, schema.mutation_type, <<"Mutation">>)
    ELSE RootByAttr(schema, schema.subscription_type, <<"Subscription">>)

Unbound == [name |-> "Unbound", has_fields |-> FALSE, fields |-> NoFields]

\* for sel in selections: traverse_schema(sel, parent, ..., recursion_depth=1)
OneSurface(sels, parent_type, schema_name, origin) ==
    [i \in 1..Len(sels) |-> Frame(sels[i], parent_type, schema_name, 1, origin)]

\* for sel in selections: the Admin call, then the Storefront call
BothSurfaces(sels, admin_parent, storefront_parent, origin) ==
    [i \in 1..(2 * Len(sels)) |->
        IF i % 2 = 1 THEN Frame(sels[(i + 1) \div 2], admin_parent, "Admin", 1, origin)
        ELSE Frame(sels[i \div 2], storefront_parent, "Storefront", 1, origin)]

Calls(roots, raised, frames) == [roots |-> roots, raised |-> raised, frames |-> frames]

\* lines 1394-1464: an operation
OperationCalls(sels, client_type, admin_root, storefront_root, origin) ==
    Calls([admin |-> admin_root, storefront |-> storefront_root], FALSE,
          IF client_type = "Admin" THEN OneSurface(sels, admin_root, "Admin", origin)
          ELSE IF client_type = "Storefront"
          THEN OneSurface(sels, storefront_root, "Storefront", origin)
          ELSE BothSurfaces(sels, admin_root, storefront_root, origin))

\* lines 1511-1526: the Admin walk of the branch taken when the fragment is
\* not walked on one surface only
UnknownFragmentAdminCalls(sels, admin_fragment_type, origin) ==
    IF IsNoType(admin_fragment_type) THEN <<>>
    ELSE OneSurface(sels, admin_fragment_type, "Admin", origin)

\* lines 1465-1575: a fragment definition; the last branch reads the
\* function's admin_root / storefront_root, bound by an earlier operation only
FragmentCalls(sels, client_type, roots, admin_fragment_type, storefront_fragment_type, origin) ==
    IF client_type = "Admin" /\ ~IsNoType(admin_fragment_type)
    THEN Calls(roots, FALSE, OneSurface(sels, admin_fragment_type, "Admin", origin))
    ELSE IF client_type = "Storefront" /\ ~IsNoType(storefront_fragment_type)
    THEN Calls(roots, FALSE, OneSurface(sels, storefront_fragment_type, "Storefront", origin))
    ELSE IF ~IsNoType(storefront_fragment_type)
    THEN Calls(roots, FALSE,
               UnknownFragmentAdminCalls(sels, admin_fragment_type, origin)
                 \o OneSurface(sels, storefront_fragment_type, "Storefront", origin))
    ELSE IF roots.admin = Unbound
    THEN Calls(roots, TRUE, UnknownFragmentAdminCalls(sels, admin_fragment_type, origin))
    ELSE Calls(roots, FALSE,
               UnknownFragmentAdminCalls(sels, admin_fragment_type, origin)
                 \o BothSurfaces(sels, roots.admin, roots.storefront, origin))

\* the top-level walker calls of one definition of a block, the function's
\* admin_root / storefront_root after it, and whether it raised
DefinitionCalls(defn, client_type, roots, schemas, origin) ==
    IF defn.is_operation
    THEN OperationCalls(defn.selections, client_type,
                        get_root_type(defn.operation, schemas.old_admin),
                        get_root_type(defn.operation, schemas.old_storefront), origin)
    ELSE FragmentCalls(defn.selections, client_type, roots,
                       get_type(schemas.old_admin, defn.type_condition),
                       get_type(schemas.old_storefront, defn.type_condition), origin)

RECURSIVE BlockCalls(_, _, _, _, _)

JoinCalls(d, rest) == Calls(rest.roots, rest.raised, d.frames \o rest.frames)

CallsAfter(d, defs, client_type, schemas, origin) ==
    IF d.raised THEN d
    ELSE JoinCalls(d, BlockCalls(defs, client_type, d.roots, schemas, origin))

\* for defn in document.definitions
BlockCalls(defs, client_type, roots, schemas, origin) ==
    IF defs = <<>> THEN Calls(roots, FALSE, <<>>)
    ELSE CallsAfter(DefinitionCalls(Head(defs), client_type, roots, schemas, origin),
                    Tail(defs), client_type, schemas, origin)

RECURSIVE AddFragments(_, _, _)
\* global_fragment_definitions[name] = defn for the fragments of one document
AddFragments(table, defs, origin) ==
    IF defs = <<>> THEN table
    ELSE AddFragments(IF Head(defs).is_operation THEN table
                      ELSE [n \in DOMAIN table \cup {Head(defs).name} |->
                               IF n = Head(defs).name
                               THEN [def |-> Head(defs), origin |-> origin]
                               ELSE table[n]],
                      Tail(defs), origin)

DocumentFragments(table, doc, origin) ==
    IF doc.ok THEN AddFragments(table, doc.defs, origin) ELSE table

\* a table built from the first block alone
CollectFromFirstBlock(blocks, i, table) ==
    IF blocks = <<>> THEN table ELSE DocumentFragments(table, parse(blocks[1].raw), 1)

RECURSIVE CollectFragments(_, _, _)
\* first pass: global_fragment_definitions over all blocks (last one wins)
CollectFragments(blocks, i, table) ==
    IF i > Len(blocks) THEN table
    ELSE CollectFragments(blocks, i + 1,
                          DocumentFragments(table, parse(blocks[i].raw), i))

\* ------------------------------------------------------------------------
\* Inputs: host statements and standalone operation files
\* ------------------------------------------------------------------------

MaxStmts == 2
MaxRuns == 3
MaxBlocks == 2

QA == <<"query", "A", "{", "a", "}">>
QALines == <<"query", "A", "{", "NL", "a", "NL", "}">>
QAEsc == <<"query", "A", "{", "ESC", "a", "}">>
QHead == <<"query", "A", "{">>
QTail == <<"a", "}">>
FragF == <<"fragment", "F", "on", "T", "{", "a", "}">>
Broken == <<"query", "{", "}">>
\* strings that begin with no operation keyword: a shorthand query, text with
\* a brace pair, text without braces
ShorthandA == <<"{", "a", "}">>
Templated == <<"hello", "{", "a", "}">>
Greeting == <<"hello">>

Stmt(form, target, expr) == [form |-> form, target |-> target, expr |-> expr]

HostStatements ==
    { Stmt("assign", "q", Const("Q1", QA)),
      Stmt("assign", "query", Const("Q3", QALines)),
      Stmt("assign", "x", Const("Q1", QAEsc)),
      Stmt("assign_gql", "g", Const("Q3", <<"NL">> \o QALines \o <<"NL">>)),
      Stmt("assign_gql", "r", Name("q")),
      Stmt("assign", "query", BinOp(Const("Q1", QHead), Name("v"))),
      Stmt("assign", "x", BinOp(BinOp(Const("Q1", QHead), Const("Q1", QTail)), Name("v"))),
      Stmt("assign", "x", BinOp(Const("Q1", QHead), Const("Q1", QTail))),
      Stmt("assign", "x", BinOp(Name("q"), Const("Q1", FragF))),
      Stmt("assign", "x", Const("Q1", Broken)),
      Stmt("assign", "x", Const("Q1", ShorthandA)),
      Stmt("assign", "x", Const("Q1", Templated)),
      Stmt("assign", "x", Const("Q1", Greeting)),
      Stmt("assign", "query", Const("Q1", Greeting)),
      Stmt("return", None, Const("Q1", FragF)),
      Stmt("syntax_error", None, Name("(")) }

HostFiles ==
    { [ext |-> "py", stmts |-> ss, text |-> RenderFile(ss)] :
        ss \in UNION { [1..n -> HostStatements] : n \in 1..MaxStmts } }

GraphqlTexts ==
    { QA \o <<"NL">>,
      QA \o <<"NL">> \o QA \o <<"NL">>,
      QA \o <<"NL", "NL">> \o QALines \o <<"NL">>,
      QALines \o <<"NL">> \o FragF \o <<"NL">>,
      <<"#", "c", "NL">> \o QA \o <<"NL">>,
      Broken \o <<"NL">> }

GraphqlFiles == { [ext |-> "graphql", stmts |-> <<>>, text |-> t] : t \in GraphqlTexts }

\* the files run between two runs on the same input
OtherFiles ==
    { [ext |-> "py", stmts |-> ss, text |-> RenderFile(ss)] :
        ss \in { <<Stmt("return", None, Const("Q1", FragF))>>,
                 <<Stmt("assign", "q", Const("Q1", QA))>> } }

\* ------------------------------------------------------------------------
\* Inputs of the validation: schema snapshots and target files
\* ------------------------------------------------------------------------

Fld(t) == [present |-> TRUE, type |-> t, is_deprecated |-> FALSE, deprecation_reason |-> None]
\* a field with @deprecated(reason: ...)
Deprecated(t, reason) ==
    [present |-> TRUE, type |-> t, is_deprecated |-> TRUE, deprecation_reason |-> reason]
Obj(fields) == [has_fields |-> TRUE, fields |-> fields]
Scalar == [has_fields |-> FALSE, fields |-> NoFields]

Schema(types) ==
    [loaded |-> TRUE, query_type |-> "QueryRoot", mutation_type |-> "Mutation",
     subscription_type |-> None, types |-> types]

Scalars == "ID" :> Scalar @@ "String" :> Scalar

AdminRoots ==
    "QueryRoot" :> Obj("shop" :> Fld(<<"Shop">>) @@ "customer" :> Fld(<<"Customer">>))
    @@ "Mutation" :> Obj("customerUpdate" :> Fld(<<"Customer">>))

\* Shop.name and Shop.n are deprecated in the old schema
ShopOld ==
    Obj("id" :> Fld(<<"NonNull", "ID">>) @@ "name" :> Deprecated(<<"String">>, "use title")
        @@ "n" :> Deprecated(<<"String">>, "use title"))

\* Shop.title is added
ShopNew ==
    Obj("id" :> Fld(<<"NonNull", "ID">>) @@ "name" :> Deprecated(<<"String">>, "use title")
        @@ "n" :> Deprecated(<<"String">>, "use title") @@ "title" :> Fld(<<"String">>))

AdminOld ==
    Schema(AdminRoots @@ Scalars @@ "Shop" :> ShopOld
           @@ "Customer" :> Obj("email" :> Fld(<<"String">>) @@ "id" :> Fld(<<"NonNull", "ID">>)))

\* the new query root has a field gift of the new type Gift
AdminNewQueryRoot ==
    Obj("shop" :> Fld(<<"Shop">>) @@ "customer" :> Fld(<<"Customer">>)
        @@ "gift" :> Fld(<<"Gift">>))

\* Customer.email is removed; QueryRoot.gift and the type Gift are added
AdminNew ==
    Schema("QueryRoot" :> AdminNewQueryRoot @@ AdminRoots @@ Scalars @@ "Shop" :> ShopNew
           @@ "Gift" :> Obj("id" :> Fld(<<"NonNull", "ID">>))
           @@ "Customer" :> Obj("id" :> Fld(<<"NonNull", "ID">>)))

StorefrontRoots(customerType) ==
    "QueryRoot" :> Obj("customer" :> Fld(<<customerType>>) @@ "cart" :> Fld(<<"Cart">>))
    @@ "Mutation" :> Obj("cartCreate" :> Fld(<<"Cart">>))
    @@ "Cart" :> Obj("id" :> Fld(<<"NonNull", "ID">>))

StorefrontOld(customerType) ==
    Schema(StorefrontRoots(customerType) @@ Scalars
           @@ customerType :> Obj("email" :> Fld(<<"String">>) @@ "id" :> Fld(<<"NonNull", "ID">>)))

\* the customer type loses email
StorefrontNew(customerType) ==
    Schema(StorefrontRoots(customerType) @@ Scalars
           @@ customerType :> Obj("id" :> Fld(<<"NonNull", "ID">>)))

\* the four schemas handed to the validation: the storefront names its
\* customer type Customer (as the admin surface does) or Buyer
SchemaSets ==
    { [old_admin |-> AdminOld, new_admin |-> AdminNew,
       old_storefront |-> StorefrontOld(t), new_storefront |-> StorefrontNew(t)] :
        t \in {"Customer", "Buyer"} }

NoSchemas ==
    [old_admin |-> NoSchema, new_admin |-> NoSchema,
     old_storefront |-> NoSchema, new_storefront |-> NoSchema]

QCustomerEmail == <<"query", "A", "{", "customer", "{", "email", "}", "}">>
QShop == <<"query", "A", "{", "shop", "{", "id", "}", "}">>
QShorthand == <<"{", "shop", "{", "id", "}", "}">>
MCart == <<"mutation", "M", "{", "cartCreate", "{", "id", "}", "}">>
SShop == <<"subscription", "S", "{", "shop", "{", "id", "}", "}">>
FragSelf == <<"fragment", "F", "on", "Customer", "{", "email", "...", "F", "}">>
QSpread == <<"query", "A", "{", "customer", "{", "...", "F", "}", "}">>
FragG == <<"fragment", "G", "on", "Customer", "{", "...", "H", "}">>
FragH == <<"fragment", "H", "on", "Customer", "{", "id", "...", "G", "}">>
FragCart == <<"fragment", "F", "on", "Cart", "{", "id", "}">>
FragCustomer == <<"fragment", "F", "on", "Customer", "{", "email", "}">>
FragNope == <<"fragment", "F", "on", "Nope", "{", "id", "}">>
FragCommented == <<"fragment", "F", "#", "c", "NL", "on", "Customer", "{", "email", "}">>
QInline ==
    <<"query", "A", "{", "customer", "{", "...", "on", "Customer", "{", "email", "}",
      "...", "{", "id", "}", "}", "}">>
QShopName == <<"query", "A", "{", "shop", "{", "name", "}", "}">>
QShopTitle == <<"query", "A", "{", "shop", "{", "id", "title", "}", "}">>
FragShop == <<"fragment", "S", "on", "Shop", "{", "name", "}">>
QShopSpread == <<"query", "A", "{", "shop", "{", "...", "S", "}", "}">>
QGift == <<"query", "A", "{", "gift", "{", "id", "}", "}">>
\* the one-character field n with an inline fragment right behind it: n... on Shop
QShopInline ==
    <<"query", "A", "{", "shop", "{", "n", "...", "on", "Shop", "{", "id", "}", "}", "}">>
\* the operation of the pattern scenario: query { customer(extraArg: 1) { id } }
QExtraArg ==
    <<"query", "{", "customer", "(", "extraArg", ":", "1", ")", "{", "id", "}", "}">>
QCustomerLines == <<"query", "A", "{", "NL", "customer", "{", "email", "}", "NL", "}">>

ValidatedTexts ==
    { QCustomerEmail \o <<"NL">>,
      QShop \o <<"NL">>,
      QShorthand \o <<"NL">>,
      MCart \o <<"NL">>,
      SShop \o <<"NL">>,
      FragSelf \o <<"NL">> \o QSpread \o <<"NL">>,
      FragG \o <<"NL">> \o FragH \o <<"NL">>,
      FragCart \o <<"NL">>,
      FragCustomer \o <<"NL">> \o QSpread \o <<"NL">>,
      FragNope \o <<"NL">>,
      QShop \o <<"NL">> \o FragNope \o <<"NL">>,
      FragCommented \o <<"NL">>,
      QInline \o <<"NL">>,
      QShopName \o <<"NL">>,
      QShopTitle \o <<"NL">>,
      QGift \o <<"NL">>,
      QShopInline \o <<"NL">>,
      QExtraArg \o <<"NL">>,
      FragShop \o <<"NL">> \o QShopSpread \o <<"NL">>,
      QShopSpread \o <<"NL">> \o FragShop \o <<"NL">> }

ValidatedHostFiles ==
    { [ext |-> "py", stmts |-> ss, text |-> RenderFile(ss)] :
        ss \in { <<Stmt("assign", "q", Const("Q3", QCustomerLines))>>,
                 <<Stmt("assign", "q", Const("Q1", QExtraArg))>>,
                 <<Stmt("assign", "x", Const("Q1", Broken)),
                   Stmt("assign", "q", Const("Q1", QCustomerEmail))>> } }

ValidatedFiles ==
    { [ext |-> "graphql", stmts |-> <<>>, text |-> t] : t \in ValidatedTexts }
        \cup ValidatedHostFiles

NoFile == [ext |-> "none", stmts |-> <<>>, text |-> <<>>]

\* ------------------------------------------------------------------------
\* State
\* ------------------------------------------------------------------------

VARIABLES
    file,          \* the input file of the odd runs
    other,         \* the input file of the even runs
    entry,         \* "blocks": extract_graphql_blocks; "single" / "directory":
                   \* extract_from_directory on a file path / on a directory
    run,           \* number of the current call
    pc,            \* "start", "parsing", "done"; "idle" during a validation
    candidates,    \* calls of _extract_graphql_defs still to be made
    gql_blocks,    \* the accumulator list (gql_blocks / gql_results)
    result,        \* the block list returned for the file
    first_result,  \* the list returned by the first call
    returned,      \* what the call gave back: "list" (the block list of
                   \* extract_graphql_blocks), "entry" (a list with the entry of
                   \* the file), "empty" (a list without an entry for the file)
    scan,          \* a scan of several files: the entry point, the files found,
                   \* the position of its loop and the entries collected
    dfs,           \* a call of is_pydantic_model: the inheritance map, the
                   \* seen set, the frames of the recursion and the result
    fetch,         \* a call of fetch_schema_from_shopify: retries, the attempts
                   \* made and how the call ended
    vfile,         \* target_file of the validation
    schemas,       \* old / new schema of the Admin and the Storefront surface
    ventry,        \* "evolution": check_deprecated_and_removed_fields;
                   \* "surface": check_surface_validation;
                   \* "no_schemas": check_surface_validation_no_schemas
    vpc,           \* "start", "blocks", "walking", "comparison", "validation",
                   \* "patterns", "done", "raised"; "run" / "returned": in
                   \* run_validation, before its validators / after its
                   \* return; "idle" during an extraction
    graphql_blocks,        \* the blocks extracted from target_file
    block_index,           \* position of the running loop in graphql_blocks
    fragment_definitions,  \* global_fragment_definitions
    stack,         \* pending calls of traverse_schema, the next one first
    seen,          \* keys of the warnings added so far
    warnings,      \* the warning list
    sites,         \* for each warning, the node it was raised for
    roots,         \* admin_root / storefront_root of the function
    classified,    \* the last call of determine_client_type and its result
    picked,        \* per loop and block: the classification, the schema
                   \* pairs the block was checked against and the warnings
                   \* the loops of check_surface_validation got for it
    depths,        \* deepest recursion_depth a call was made with (called)
                   \* and ran its body with (ran)
    cli            \* InteractiveCLI.run_validation, when it is the caller: its
                   \* options, the files of its results, the position of its
                   \* loop, file_warnings of the running pass, the file_warnings
                   \* of the finished passes and its warnings list

evars == <<file, other, entry, run, pc, candidates, gql_blocks, result, first_result,
           returned, scan, dfs, fetch>>

vvars == <<vfile, schemas, ventry, vpc, graphql_blocks, block_index, fragment_definitions,
           stack, seen, warnings, sites, roots, classified, picked, depths, cli>>

vars == <<evars, vvars>>

\* the validators are called directly
NoCli == [running |-> FALSE, schema_evolution |-> FALSE, surface_validation |-> FALSE,
          files |-> <<>>, index |-> 0, file_warnings |-> <<>>, reports |-> <<>>,
          warnings |-> <<>>]

NoClassification ==
    [block_type |-> None, raw |-> <<>>, with_schemas |-> FALSE, result |-> None]

\* no validation is running
IdleValidator ==
    /\ vfile = NoFile
    /\ schemas = NoSchemas
    /\ ventry = "none"
    /\ vpc = "idle"
    /\ graphql_blocks = <<>>
    /\ block_index = 0
    /\ fragment_definitions = <<>>
    /\ stack = <<>>
    /\ seen = {}
    /\ warnings = <<>>
    /\ sites = <<>>
    /\ roots = [admin |-> Unbound, storefront |-> Unbound]
    /\ classified = NoClassification
    /\ picked = <<>>
    /\ depths = [ran |-> 0, called |-> 0]
    /\ cli = NoCli

\* no scan is running
NoScan == [entry |-> "none", files |-> <<>>, index |-> 0, results |-> <<>>, pc |-> "idle",
           raised |-> FALSE, single |-> <<>>]

\* no call of is_pydantic_model is running
NoDfs == [inheritance |-> <<>>, arg |-> None, seen |-> {}, stack |-> <<>>, pc |-> "idle",
          result |-> None]

\* no call of fetch_schema_from_shopify is running
NoFetch == [retries |-> 0, with_header |-> FALSE, attempts |-> 0, outcomes |-> <<>>,
            pc |-> "idle", returns |-> None, raises |-> None]

\* no extraction is running on its own
IdleExtractor ==
    /\ file = NoFile
    /\ other = NoFile
    /\ entry = "none"
    /\ run = 0
    /\ pc = "idle"
    /\ candidates = <<>>
    /\ gql_blocks = <<>>
    /\ result = <<>>
    /\ first_result = <<>>
    /\ returned = "none"
    /\ scan = NoScan
    /\ dfs = NoDfs
    /\ fetch = NoFetch

CurFile == IF run % 2 = 1 THEN file ELSE other

Init ==
    /\ IdleValidator
    /\ file \in HostFiles \cup GraphqlFiles
    /\ other \in OtherFiles
    /\ entry \in {"blocks", "single", "directory"}
    /\ (file.ext = "graphql" => entry # "blocks")
    /\ run = 1
    /\ pc = "start"
    /\ candidates = <<>>
    /\ gql_blocks = <<>>
    /\ result = <<>>
    /\ first_result = <<>>
    /\ returned = "none"
    /\ scan = NoScan
    /\ dfs = NoDfs
    /\ fetch = NoFetch

\* a list that outlives the call (the bug of a shared accumulator)
LeakedList == gql_blocks

\* gql_blocks: List = [] at the start of a call
FreshList == <<>>

\* extract_graphql_blocks(source) up to its parser calls
BeginHost ==
    /\ pc = "start"
    /\ CurFile.ext = "py"
    /\ candidates' = HostCandidates(CurFile.stmts)
    /\ gql_blocks' = FreshList
    /\ pc' = "parsing"
    /\ UNCHANGED <<fetch, dfs, scan, file, other, entry, run, result, first_result, returned>>
    /\ UNCHANGED vvars

\* directory scan, standalone operation file: the whole file is one block
BeginGraphqlDirectory ==
    /\ pc = "start"
    /\ CurFile.ext = "graphql"
    /\ entry = "directory"
    /\ candidates' = <<Cand(CurFile.text, 1, CountTok(CurFile.text, "NL") + 1, NoOffset, FALSE)>>
    /\ gql_blocks' = FreshList
    /\ pc' = "parsing"
    /\ UNCHANGED <<fetch, dfs, scan, file, other, entry, run, result, first_result, returned>>
    /\ UNCHANGED vvars

\* one call of _extract_graphql_defs
ParserStep ==
    /\ pc = "parsing"
    /\ candidates # <<>>
    /\ LET c == Head(candidates) IN
       gql_blocks' = extract_graphql_defs(c.block, c.start_line, c.end_line, gql_blocks,
                                          c.string_offset, c.has_source, CurFile.text)
    /\ candidates' = Tail(candidates)
    /\ UNCHANGED <<fetch, dfs, scan, file, other, entry, run, pc, result, first_result, returned>>
    /\ UNCHANGED vvars

OperationTypes == {"query", "mutation", "subscription", "fragment"}

\* extract_pydantic_models(source): the files hold no model class, so the
\* list is empty unless the parse tree cannot be built
extract_pydantic_models(f) ==
    IF SyntaxOk(f.stmts) THEN <<>>
    ELSE <<[model_name |-> None, raw |-> Strip(f.text), start_line |-> 1,
            end_line |-> CountTok(f.text, "NL") + 1, type |-> "unknown",
            error |-> "SyntaxError"]>>

\* block["name"] on a record of a GraphQL type that has no such key
DedupRaises(results) ==
    \E i \in 1..Len(results) :
        results[i].type \in GraphqlTypes /\ "name" \notin DOMAIN results[i]

\* extract_from_directory(path of one host file): the combined list is
\* deduplicated and split; any exception makes the call return []
HostSingleFileReturn(combined) ==
    IF DedupRaises(combined) THEN [returned |-> "empty", result |-> <<>>]
    ELSE [returned |-> "entry",
          result |-> SelectSeq(deduplicate_and_sort_results(combined),
                               LAMBDA r : r.type \in OperationTypes)]

\* directory scan, host file: the entry is appended when either list holds
\* something
HostDirectoryReturn(gql_results, model_results) ==
    [returned |-> IF gql_results # <<>> \/ model_results # <<>> THEN "entry" ELSE "empty",
     result |-> gql_results]

HostReturn(gql_results) ==
    IF entry = "single"
    THEN HostSingleFileReturn(gql_results \o extract_pydantic_models(CurFile))
    ELSE IF entry = "directory"
    THEN HostDirectoryReturn(gql_results, extract_pydantic_models(CurFile))
    ELSE [returned |-> "list", result |-> gql_results]

Returned(r) ==
    /\ result' = r.result
    /\ returned' = r.returned

\* the end of extract_graphql_blocks and what its caller returns for the file
ReturnHost ==
    /\ pc = "parsing"
    /\ candidates = <<>>
    /\ CurFile.ext = "py"
    /\ Returned(HostReturn(deduplicate_and_sort_results(gql_blocks)))
    /\ pc' = "done"
    /\ UNCHANGED <<fetch, dfs, scan, file, other, entry, run, candidates, gql_blocks, first_result>>
    /\ UNCHANGED vvars

\* directory scan, standalone operation file: the collected list as it is
ReturnGraphqlDirectory ==
    /\ pc = "parsing"
    /\ candidates = <<>>
    /\ CurFile.ext = "graphql"
    /\ result' = gql_blocks
    /\ returned' = IF gql_blocks # <<>> THEN "entry" ELSE "empty"
    /\ pc' = "done"
    /\ UNCHANGED <<fetch, dfs, scan, file, other, entry, run, candidates, gql_blocks, first_result>>
    /\ UNCHANGED vvars

RECURSIVE FileDefBlocks(_, _)
\* single-file path: one block per definition, spans from the offsets
FileDefBlocks(defs, text) ==
    IF defs = <<>> THEN <<>>
    ELSE LET d == Head(defs) IN
         <<[type |-> IF d.is_operation THEN d.operation ELSE "fragment",
            name |-> d.name, type_condition |-> d.type_condition,
            raw |-> Strip(SubSeq(text, d.loc_start + 1, d.loc_end)),
            start_line |-> NewlinesBefore(text, d.loc_start) + 1,
            end_line |-> NewlinesBefore(text, d.loc_end) + 1,
            error |-> None]>> \o FileDefBlocks(Tail(defs), text)

\* gql_results of the single-file path for a standalone operation file
SingleFileGraphqlResults(text) ==
    LET doc == parse(text) IN
    IF doc.ok THEN FileDefBlocks(doc.defs, text)
    ELSE <<[type |-> "unknown", name |-> None, type_condition |-> None,
            raw |-> Strip(text), start_line |-> 1,
            end_line |-> CountTok(text, "NL") + 1, error |-> "GraphQLSyntaxError"]>>

\* extract_from_directory(path of one standalone operation file)
GraphqlSingleFile ==
    /\ pc = "start"
    /\ CurFile.ext = "graphql"
    /\ entry = "single"
    /\ gql_blocks' = FreshList \o SingleFileGraphqlResults(CurFile.text)
    /\ result' = SelectSeq(deduplicate_and_sort_results(gql_blocks'),
                           LAMBDA r : r.type \in OperationTypes)
    /\ returned' = "entry"
    /\ pc' = "done"
    /\ UNCHANGED <<fetch, dfs, scan, file, other, entry, run, candidates, first_result>>
    /\ UNCHANGED vvars

\* the caller runs the extraction again
NextRun ==
    /\ pc = "done"
    /\ run < MaxRuns
    /\ run' = run + 1
    /\ pc' = "start"
    /\ first_result' = IF run = 1 THEN result ELSE first_result
    /\ UNCHANGED <<fetch, dfs, scan, file, other, entry, candidates, gql_blocks, result, returned>>
    /\ UNCHANGED vvars

Next ==
    \/ BeginHost
    \/ BeginGraphqlDirectory
    \/ ParserStep
    \/ ReturnHost
    \/ ReturnGraphqlDirectory
    \/ GraphqlSingleFile
    \/ NextRun

Spec == Init /\ [][Next]_vars

\* ------------------------------------------------------------------------
\* The Deduplicator on its own: deduplicate_and_sort_results applied to a
\* list of collected records
\* ------------------------------------------------------------------------

GqlRecord(type, name, raw, start_line) ==
    [type |-> type, name |-> name, type_condition |-> None, raw |-> raw,
     start_line |-> start_line, end_line |-> start_line, error |-> None]

ModelRecord(model_name, raw, start_line) ==
    [model_name |-> model_name, raw |-> raw, type |-> "BaseModel/RootModel",
     start_line |-> start_line, end_line |-> start_line]

\* operations (the same one twice, a namesake with another body), a
\* fragment, an unparseable string and a model class found twice
DedupRecords ==
    { GqlRecord("query", "A", QA, 1),
      GqlRecord("query", "A", QA, 3),
      GqlRecord("query", "A", <<"query", "A", "{", "b", "}">>, 5),
      GqlRecord("fragment", "F", FragF, 2),
      GqlRecord("unknown", None, Broken, 4),
      ModelRecord("M", <<"class", "M", "(", "BaseModel", ")", ":", "x">>, 1),
      ModelRecord("M", <<"class", "M", "(", "BaseModel", ")", ":", "x">>, 6) }

DedupInputs == UNION { [1..n -> DedupRecords] : n \in 1..MaxBlocks }

InitDedup ==
    /\ IdleValidator
    /\ file = NoFile
    /\ other = NoFile
    /\ entry = "dedup"
    /\ run = 1
    /\ pc = "start"
    /\ candidates = <<>>
    /\ gql_blocks \in DedupInputs
    /\ result = <<>>
    /\ first_result = <<>>
    /\ returned = "none"
    /\ scan = NoScan
    /\ dfs = NoDfs
    /\ fetch = NoFetch

\* deduplicate_and_sort_results(results)
Deduplicate ==
    /\ pc = "start"
    /\ entry = "dedup"
    /\ result' = deduplicate_and_sort_results(gql_blocks)
    /\ returned' = "list"
    /\ pc' = "done"
    /\ UNCHANGED <<fetch, dfs, scan, file, other, entry, run, candidates, gql_blocks, first_result>>
    /\ UNCHANGED vvars

\* the caller hands the returned list to the Deduplicator again, as the
\* single-file path does with the list of extract_graphql_blocks
DeduplicateAgain ==
    /\ pc = "done"
    /\ entry = "dedup"
    /\ run < MaxRuns
    /\ gql_blocks' = result
    /\ run' = run + 1
    /\ pc' = "start"
    /\ UNCHANGED <<fetch, dfs, scan, file, other, entry, candidates, result, first_result, returned>>
    /\ UNCHANGED vvars

NextDedup ==
    \/ Deduplicate
    \/ DeduplicateAgain

SpecDedup == InitDedup /\ [][NextDedup]_vars

\* ------------------------------------------------------------------------
\* Validation of one target file: check_deprecated_and_removed_fields and
\* check_surface_validation
\* ------------------------------------------------------------------------

RECURSIVE RunParser(_, _, _)
\* the parser calls of extract_graphql_blocks, in order
RunParser(cands, blocks, text) ==
    IF cands = <<>> THEN blocks
    ELSE LET c == Head(cands) IN
         RunParser(Tail(cands),
                   extract_graphql_defs(c.block, c.start_line, c.end_line, blocks,
                                        c.string_offset, c.has_source, text),
                   text)

\* extract_graphql_blocks(source)
extract_graphql_blocks(f) ==
    deduplicate_and_sort_results(RunParser(HostCandidates(f.stmts), <<>>, f.text))

\* the block list a validation entry point extracts from the target file
ExtractedBlocks(f) ==
    IF f.ext = "graphql"
    THEN SelectSeq(deduplicate_and_sort_results(SingleFileGraphqlResults(f.text)),
                   LAMBDA r : r.type \in OperationTypes)
    ELSE extract_graphql_blocks(f)

\* not (not old_admin_schema or not old_storefront_schema or not new_admin_schema
\* or not new_storefront_schema)
AllLoaded(s) ==
    s.old_admin.loaded /\ s.old_storefront.loaded /\ s.new_admin.loaded
        /\ s.new_storefront.loaded

InitValidate ==
    /\ IdleExtractor
    /\ vfile \in ValidatedFiles
    /\ schemas \in SchemaSets
    /\ ventry \in {"evolution", "surface"}
    /\ vpc = "start"
    /\ graphql_blocks = <<>>
    /\ block_index = 0
    /\ fragment_definitions = <<>>
    /\ stack = <<>>
    /\ seen = {}
    /\ warnings = <<>>
    /\ sites = <<>>
    /\ roots = [admin |-> Unbound, storefront |-> Unbound]
    /\ classified = NoClassification
    /\ picked = <<>>
    /\ depths = [ran |-> 0, called |-> 0]
    /\ cli = NoCli

\* check_deprecated_and_removed_fields up to the end of its first pass
ExtractAndCollect ==
    /\ vpc = "start"
    /\ ventry \in {"evolution", "surface"}
    /\ ventry = "surface" => AllLoaded(schemas)
    /\ graphql_blocks' = ExtractedBlocks(vfile)
    /\ fragment_definitions' = CollectFragments(graphql_blocks', 1, <<>>)
    /\ block_index' = 1
    /\ vpc' = "blocks"
    /\ UNCHANGED <<vfile, schemas, cli, ventry, stack, seen, warnings, sites, roots,
                   classified, picked, depths>>
    /\ UNCHANGED evars

CurBlock == graphql_blocks[block_index]

Classification(block, with_schemas, client_type) ==
    [block_type |-> block.type, raw |-> block.raw, with_schemas |-> with_schemas,
     result |-> client_type]

\* the walker calls to come belong to these schema pairs
SurfacesOf(frames) == {frames[i].schema_name : i \in 1..Len(frames)}

Picked(path, client_type, surfaces, found) ==
    Append(picked, [path |-> path, block |-> block_index, client_type |-> client_type,
                    surfaces |-> surfaces, found |-> found])

\* the outcome of the top-level loop over the definitions of the block
BlockStarted(block_client_type, calls) ==
    /\ classified' = Classification(CurBlock, TRUE, block_client_type)
    /\ roots' = calls.roots
    /\ stack' = calls.frames
    /\ vpc' = IF calls.raised THEN "raised" ELSE "walking"
    /\ picked' = IF calls.raised THEN picked
                 ELSE Picked("evolution", block_client_type, SurfacesOf(calls.frames),
                             <<>>)

BlockClassified(block_client_type, document) ==
    BlockStarted(block_client_type,
                 BlockCalls(document.defs, block_client_type, roots, schemas, block_index))

\* second pass, a block that parses: classification and the top-level calls
StartBlock ==
    /\ vpc = "blocks"
    /\ block_index <= Len(graphql_blocks)
    /\ parse(CurBlock.raw).ok
    /\ BlockClassified(determine_client_type(CurBlock.raw, schemas.old_admin,
                                             schemas.old_storefront),
                       parse(CurBlock.raw))
    /\ UNCHANGED <<vfile, schemas, cli, ventry, graphql_blocks, block_index,
                   fragment_definitions, seen, warnings, sites, depths>>
    /\ UNCHANGED evars

\* second pass, a block that does not parse: continue
SkipBlock ==
    /\ vpc = "blocks"
    /\ block_index <= Len(graphql_blocks)
    /\ ~parse(CurBlock.raw).ok
    /\ classified' = Classification(CurBlock, TRUE,
           determine_client_type(CurBlock.raw, schemas.old_admin, schemas.old_storefront))
    /\ block_index' = block_index + 1
    /\ UNCHANGED <<vfile, schemas, cli, ventry, vpc, graphql_blocks, fragment_definitions,
                   stack, seen, warnings, sites, roots, picked, depths>>
    /\ UNCHANGED evars

Walking(kind) ==
    /\ vpc = "walking"
    /\ stack # <<>>
    /\ ~DepthExceeded(Head(stack).recursion_depth)
    /\ Head(stack).node.kind = kind

\* the call at the head of the stack ran its body and made these calls
Walked(children) ==
    /\ stack' = children \o Tail(stack)
    /\ depths' = [ran |-> Max(depths.ran, Head(stack).recursion_depth),
                  called |-> Max(depths.called, Head(stack).recursion_depth)]

Warned(st) ==
    /\ seen' = st.seen
    /\ warnings' = st.warnings
    /\ sites' = st.sites

FieldWalked(fr, old, new) ==
    /\ Warned(AddWarnings(FieldFindings(old, new), fr, vfile, CurBlock.start_line,
                          [seen |-> seen, warnings |-> warnings, sites |-> sites]))
    /\ Walked(FieldChildren(fr, old, new, schemas))

\* traverse_schema on a field node
WalkField ==
    /\ Walking("Field")
    /\ FieldWalked(Head(stack),
                   old_field(Head(stack).parent_type, Head(stack).node.name),
                   new_field(Head(stack).parent_type, Head(stack).node.name,
                             NewSchema(schemas, Head(stack).schema_name)))
    /\ UNCHANGED <<vfile, schemas, cli, ventry, vpc, graphql_blocks, block_index,
                   fragment_definitions, roots, classified, picked>>
    /\ UNCHANGED evars

\* traverse_schema on an inline fragment
WalkInlineFragment ==
    /\ Walking("InlineFragment")
    /\ Walked(InlineFragmentChildren(Head(stack), schemas))
    /\ UNCHANGED <<vfile, schemas, cli, ventry, vpc, graphql_blocks, block_index,
                   fragment_definitions, seen, warnings, sites, roots, classified, picked>>
    /\ UNCHANGED evars

\* traverse_schema on a fragment spread
WalkFragmentSpread ==
    /\ Walking("FragmentSpread")
    /\ Walked(FragmentSpreadChildren(Head(stack), schemas, fragment_definitions))
    /\ UNCHANGED <<vfile, schemas, cli, ventry, vpc, graphql_blocks, block_index,
                   fragment_definitions, seen, warnings, sites, roots, classified, picked>>
    /\ UNCHANGED evars

\* traverse_schema called beyond the depth bound: it returns at once
DepthGuardReturn ==
    /\ vpc = "walking"
    /\ stack # <<>>
    /\ DepthExceeded(Head(stack).recursion_depth)
    /\ stack' = Tail(stack)
    /\ depths' = [depths EXCEPT !.called = Max(@, Head(stack).recursion_depth)]
    /\ UNCHANGED <<vfile, schemas, cli, ventry, vpc, graphql_blocks, block_index,
                   fragment_definitions, seen, warnings, sites, roots, classified, picked>>
    /\ UNCHANGED evars

\* all calls of the block returned; check_deprecated_input_fields returns at
\* its first test (an OperationType never equals the string "mutation")
EndBlock ==
    /\ vpc = "walking"
    /\ stack = <<>>
    /\ block_index' = block_index + 1
    /\ vpc' = "blocks"
    /\ UNCHANGED <<vfile, schemas, cli, ventry, graphql_blocks, fragment_definitions, stack,
                   seen, warnings, sites, roots, classified, picked, depths>>
    /\ UNCHANGED evars

\* return warnings; check_surface_validation goes on with its own loops
ReturnWarnings ==
    /\ vpc = "blocks"
    /\ block_index > Len(graphql_blocks)
    /\ vpc' = IF ventry = "surface" THEN "comparison" ELSE "done"
    /\ block_index' = 1
    /\ UNCHANGED <<vfile, schemas, cli, ventry, graphql_blocks, fragment_definitions, stack,
                   seen, warnings, sites, roots, classified, picked, depths>>
    /\ UNCHANGED evars

\* ------------------------------------------------------------------------
\* check_graphql_patterns: regular expressions over the text of a block.
\* Tokens stand one column apart; \s* and \s+ between two tokens of a
\* pattern are the line breaks between them.  The patterns for quoted
\* values, $variables and @directives have nothing to match in token text.
\* ------------------------------------------------------------------------

RECURSIVE LastBreak(_, _)
\* index of the last line break among the first n tokens (0: none)
LastBreak(content, n) ==
    IF n = 0 THEN 0
    ELSE IF content[n] = "NL" THEN n
    ELSE LastBreak(content, n - 1)

\* calculate_line_col_position_for_extracted_content(content, start_line, position)
calculate_line_col_position_for_extracted_content(content, original_start_line, position) ==
    IF position >= Len(content) THEN <<original_start_line + 1, 1>>
    ELSE <<original_start_line + NewlinesBefore(content, position) + 1,
           position - LastBreak(content, position) + 1>>

ExtraArgNames == {"extraArg", "unknownArg", "invalidArg", "testArg"}

fields_requiring_args ==
    {"customer", "product", "order", "user", "shop", "customerUpdated", "orderCreated",
     "customerUpdates"}

\* the names of the texts that \b(?:nonExistent|invalid|unknown|test|dummy|extra)\w*\b
\* matches; none of them is in skip_fields
LikelyNonExistent == ExtraArgNames

NextTok(content, i) == SkipWs(content, i + 1)

RECURSIVE NextToks(_, _, _)
\* the n-th token after i
NextToks(content, i, n) ==
    IF n = 0 THEN i ELSE NextToks(content, NextTok(content, i), n - 1)

\* (\w+)\s*\([^)]*(?:extraArg|unknownArg|invalidArg|testArg)[^)]*\) matched at i
ExtraArgAt(content, i) ==
    /\ IsName(content[i])
    /\ TokAt(content, NextTok(content, i)) = "("
    /\ \E j \in (NextTok(content, i) + 1)..Len(content) :
        /\ content[j] = ")"
        /\ \A k \in (NextTok(content, i) + 1)..(j - 1) : content[k] # ")"
        /\ \E k \in (NextTok(content, i) + 1)..(j - 1) : content[k] \in ExtraArgNames

\* (\w+)\s*\(\s*\) matched at i, the name being one that requires arguments
MissingArgParensAt(content, i) ==
    /\ IsName(content[i])
    /\ Lower(content[i]) \in fields_requiring_args
    /\ TokAt(content, NextTok(content, i)) = "("
    /\ TokAt(content, NextTok(content, NextTok(content, i))) = ")"

\* (\w+)\s*\{\s* matched at i, the name being one that requires arguments
MissingArgBracesAt(content, i) ==
    /\ IsName(content[i])
    /\ Lower(content[i]) \in fields_requiring_args
    /\ TokAt(content, NextTok(content, i)) = "{"

NonExistentAt(content, i) == content[i] \in LikelyNonExistent

\* \.\.\.\s+on\s+(\w+) matched at i
InlineFragmentAt(content, i) ==
    /\ content[i] = "..."
    /\ TokAt(content, NextTok(content, i)) = "on"
    /\ IsName(TokAt(content, NextTok(content, NextTok(content, i))))

\* \.\.\.\s+(\w+) matched at i
FragmentSpreadAt(content, i) ==
    /\ content[i] = "..."
    /\ IsName(TokAt(content, NextTok(content, i)))

\* fragment\s+(\w+)\s+on\s+(\w+) matched at i
FragmentDefAt(content, i) ==
    /\ content[i] = "fragment"
    /\ IsName(TokAt(content, NextTok(content, i)))
    /\ TokAt(content, NextTok(content, NextTok(content, i))) = "on"
    /\ IsName(TokAt(content, NextTok(content, NextTok(content, NextTok(content, i)))))

\* subscription\s+(\w+) matched at i
SubscriptionAt(content, i) ==
    /\ content[i] = "subscription"
    /\ IsName(TokAt(content, NextTok(content, i)))

\* the dictionary appended for a match at token i (offset i - 1)
PatternWarning(content, file_name, start_line, i, level, kind, subject) ==
    [file |-> file_name,
     line |-> calculate_line_col_position_for_extracted_content(content, start_line,
                                                                  i - 1)[1],
     column |-> calculate_line_col_position_for_extracted_content(content, start_line,
                                                                    i - 1)[2],
     level |-> level, kind |-> kind, field |-> subject, type |-> None,
     reason |-> None, client_info |-> None]

\* the pattern matches at token i
MatchAt(pattern, content, i) ==
    CASE pattern = "extra_arg" -> ExtraArgAt(content, i)
      [] pattern = "missing_arg_parens" -> MissingArgParensAt(content, i)
      [] pattern = "missing_arg_braces" -> MissingArgBracesAt(content, i)
      [] pattern = "non_existent" -> NonExistentAt(content, i)
      [] pattern = "inline_fragment" -> InlineFragmentAt(content, i)
      [] pattern = "fragment_spread" -> FragmentSpreadAt(content, i)
      [] pattern = "fragment_def" -> FragmentDefAt(content, i)
      [] pattern = "subscription" -> SubscriptionAt(content, i)

\* re.finditer(pattern, graphql_content): the offsets of the matches
Matches(pattern, content) ==
    SelectSeq([i \in 1..Len(content) |-> i], LAMBDA i : MatchAt(pattern, content, i))

\* for match in re.finditer(pattern, graphql_content): warnings.append(...);
\* the message names the group-th token behind the start of the match
PatternWarnings(content, file_name, start_line, pattern, level, kind, group) ==
    [m \in 1..Len(Matches(pattern, content)) |->
        PatternWarning(content, file_name, start_line, Matches(pattern, content)[m], level,
                       kind,
                       IF pattern \in {"missing_arg_parens", "missing_arg_braces"}
                       THEN Lower(TokAt(content, Matches(pattern, content)[m]))
                       ELSE TokAt(content,
                                  NextToks(content, Matches(pattern, content)[m], group)))]

\* check_graphql_patterns(graphql_content, file, start_line)
check_graphql_patterns(content, file_name, start_line) ==
    PatternWarnings(content, file_name, start_line, "extra_arg", "error",
                    "GRAPHQL_EXTRA_ARGUMENT", 0)
    \o PatternWarnings(content, file_name, start_line, "missing_arg_parens", "error",
                       "GRAPHQL_MISSING_ARGUMENT", 0)
    \o PatternWarnings(content, file_name, start_line, "missing_arg_braces", "error",
                       "GRAPHQL_MISSING_ARGUMENT", 0)
    \o PatternWarnings(content, file_name, start_line, "non_existent", "error",
                       "GRAPHQL_NON_EXISTENT_FIELD", 0)
    \o PatternWarnings(content, file_name, start_line, "inline_fragment", "error",
                       "GRAPHQL_INVALID_FRAGMENT", 2)
    \o PatternWarnings(content, file_name, start_line, "fragment_spread", "error",
                       "GRAPHQL_INVALID_FRAGMENT", 1)
    \o PatternWarnings(content, file_name, start_line, "fragment_def", "warning",
                       "GRAPHQL_FRAGMENT_DEFINITION", 1)
    \o PatternWarnings(content, file_name, start_line, "subscription", "warning",
                       "GRAPHQL_SUBSCRIPTION", 1)

\* the schema pair(s) a loop of check_surface_validation takes for a block
SurfaceChoice(block_client_type) ==
    IF block_client_type = "Admin" THEN {"Admin"}
    ELSE IF block_client_type = "Storefront" THEN {"Storefront"}
    ELSE {"Admin"}

RECURSIVE FoundOn(_, _)
\* the warnings a loop of check_surface_validation got for the first k
\* entries of picked
FoundOn(path, k) ==
    IF k = 0 THEN <<>>
    ELSE FoundOn(path, k - 1)
            \o (IF picked[k].path = path THEN picked[k].found ELSE <<>>)

\* key = (warning["file"], warning["line"], warning["column"])
LocationKey(w) == <<w.file, w.line, w.column>>

\* schema_comparison_map[key]: the last comparison warning with the key
schema_comparison_map(comparison, key) ==
    LET at == {i \in 1..Len(comparison) : LocationKey(comparison[i]) = key}
    IN  IF at = {} THEN None
        ELSE comparison[CHOOSE i \in at : \A j \in at : j <= i]

\* if key in schema_comparison_map: message and level of the mapped warning
Replaced(w, mapped) ==
    IF mapped = None THEN w
    ELSE [w EXCEPT !.kind = mapped.kind, !.field = mapped.field, !.type = mapped.type,
                   !.reason = mapped.reason, !.client_info = mapped.client_info,
                   !.level = mapped.level]

\* for warning in graphql_warnings: the replacement by key
Superseded(found, comparison) ==
    [i \in 1..Len(found) |->
        Replaced(found[i], schema_comparison_map(comparison, LocationKey(found[i])))]

SurfacePicked(path, block_client_type, found) ==
    /\ classified' = Classification(CurBlock, FALSE, block_client_type)
    /\ picked' = Picked(path, block_client_type, SurfaceChoice(block_client_type), found)

\* one block of a loop of check_surface_validation: the classifier is called
\* without schemas and one schema is taken
SurfaceLoopStep(path, found) ==
    /\ vpc = path
    /\ block_index <= Len(graphql_blocks)
    /\ SurfacePicked(path, determine_client_type(CurBlock.raw, NoSchema, NoSchema), found)
    /\ block_index' = block_index + 1
    /\ UNCHANGED <<vfile, schemas, cli, ventry, vpc, graphql_blocks, fragment_definitions,
                   stack, seen, warnings, sites, roots, depths>>
    /\ UNCHANGED evars

\* the comparison loop: the parse of the block goes through the name graphql,
\* which the module never binds, so except Exception: continue skips the
\* block before any walk and schema_comparison_warnings gets nothing
SurfaceComparisonStep == SurfaceLoopStep("comparison", <<>>)

\* graphql_warnings of a block: the pattern warnings, each with the message
\* and level of the comparison warning at its key, if there is one.  The
\* errors of graphql-core's validate() go through the same replacement; they
\* are not part of this state.
graphql_warnings(block, comparison) ==
    Superseded(check_graphql_patterns(block.raw, vfile, block.start_line), comparison)

\* the validation loop
SurfaceValidationStep ==
    SurfaceLoopStep("validation",
                    graphql_warnings(CurBlock, FoundOn("comparison", Len(picked))))

SurfaceComparisonDone ==
    /\ vpc = "comparison"
    /\ block_index > Len(graphql_blocks)
    /\ vpc' = "validation"
    /\ block_index' = 1
    /\ UNCHANGED <<vfile, schemas, cli, ventry, graphql_blocks, fragment_definitions, stack,
                   seen, warnings, sites, roots, classified, picked, depths>>
    /\ UNCHANGED evars

SurfaceReturn ==
    /\ vpc = "validation"
    /\ block_index > Len(graphql_blocks)
    /\ vpc' = "done"
    /\ UNCHANGED <<vfile, schemas, cli, ventry, graphql_blocks, block_index,
                   fragment_definitions, stack, seen, warnings, sites, roots, classified,
                   picked, depths>>
    /\ UNCHANGED evars

\* one call of traverse_schema
WalkerStep ==
    \/ WalkField
    \/ WalkInlineFragment
    \/ WalkFragmentSpread
    \/ DepthGuardReturn

NextValidate ==
    \/ ExtractAndCollect
    \/ StartBlock
    \/ SkipBlock
    \/ WalkerStep
    \/ EndBlock
    \/ ReturnWarnings
    \/ SurfaceComparisonStep
    \/ SurfaceComparisonDone
    \/ SurfaceValidationStep
    \/ SurfaceReturn

\* a call of traverse_schema that can run does run: the walk is synchronous
\* and nothing else is scheduled between its calls
SpecValidate == InitValidate /\ [][NextValidate]_vars /\ WF_vars(WalkerStep)

\* ------------------------------------------------------------------------
\* InteractiveCLI.run_validation and the validation without schemas
\* ------------------------------------------------------------------------

\* "if schemas": the caller passes None or the four loaded schemas
Loaded(s) == s # NoSchemas

\* the files that stand between two files of the same content in the
\* results of a run
Companions ==
    { [ext |-> "graphql", stmts |-> <<>>, text |-> t] :
        t \in { FragNope \o <<"NL">>, QShopName \o <<"NL">> } }

\* the results handed to run_validation: one file, or a file, a companion
\* and a second file with the content of the first
RunFiles(f) == {<<f>>} \cup { <<f, g, f>> : g \in Companions }

InitRunValidation ==
    /\ IdleExtractor
    /\ vfile \in ValidatedFiles
    /\ schemas \in SchemaSets \cup {NoSchemas}
    /\ \/ /\ cli \in [running : {TRUE}, schema_evolution : {Loaded(schemas)},
                       surface_validation : BOOLEAN, files : RunFiles(vfile),
                       index : {1}, file_warnings : {<<>>}, reports : {<<>>},
                       warnings : {<<>>}]
          /\ ventry = "none"
          /\ vpc = "run"
       \/ /\ cli = NoCli
          /\ ventry = "surface"
          /\ vpc = "start"
    /\ graphql_blocks = <<>>
    /\ block_index = 0
    /\ fragment_definitions = <<>>
    /\ stack = <<>>
    /\ seen = {}
    /\ warnings = <<>>
    /\ sites = <<>>
    /\ roots = [admin |-> Unbound, storefront |-> Unbound]
    /\ classified = NoClassification
    /\ picked = <<>>
    /\ depths = [ran |-> 0, called |-> 0]

\* check_surface_validation with a schema missing:
\* return check_surface_validation_no_schemas(target_file)
SurfaceWithoutSchemas ==
    /\ vpc = "start"
    /\ ventry = "surface"
    /\ ~AllLoaded(schemas)
    /\ ventry' = "no_schemas"
    /\ UNCHANGED <<vfile, schemas, cli, vpc, graphql_blocks, block_index,
                   fragment_definitions, stack, seen, warnings, sites, roots, classified,
                   picked, depths>>
    /\ UNCHANGED evars

\* check_surface_validation_no_schemas up to its loop: whatever the extension
\* of the file, the blocks are those extract_graphql_blocks finds in its text
\* read as host source (an operation file holds no string literal and no
\* statement, so no strategy finds a candidate in it)
ExtractForPatterns ==
    /\ vpc = "start"
    /\ ventry = "no_schemas"
    /\ graphql_blocks' = extract_graphql_blocks(vfile)
    /\ block_index' = 1
    /\ vpc' = "patterns"
    /\ UNCHANGED <<vfile, schemas, cli, ventry, fragment_definitions, stack, seen, warnings,
                   sites, roots, classified, picked, depths>>
    /\ UNCHANGED evars

\* "[GRAPHQL_VALIDATION] GraphQL parsing error: ..." at the start of the block
ParsingError(block) ==
    [file |-> vfile, line |-> block.start_line, column |-> 1, level |-> "error",
     kind |-> "GRAPHQL_VALIDATION", field |-> None, type |-> None, reason |-> None,
     client_info |-> None]

\* "query" in raw_content or "mutation" in raw_content or "subscription" in raw_content
MentionsOperation(raw) == \E i \in 1..Len(raw) : raw[i] \in OpKeywords

\* the body of the loop over the blocks
PatternBlockWarnings(block) ==
    IF block.type = "unknown" /\ block.error # None THEN <<ParsingError(block)>>
    ELSE IF parse(block.raw).ok
    THEN check_graphql_patterns(block.raw, vfile, block.start_line)
    ELSE IF MentionsOperation(block.raw) THEN <<ParsingError(block)>>
    ELSE <<>>

PatternBlockStep ==
    /\ vpc = "patterns"
    /\ block_index <= Len(graphql_blocks)
    /\ warnings' = warnings \o PatternBlockWarnings(CurBlock)
    /\ block_index' = block_index + 1
    /\ UNCHANGED <<vfile, schemas, cli, ventry, vpc, graphql_blocks, fragment_definitions,
                   stack, seen, sites, roots, classified, picked, depths>>
    /\ UNCHANGED evars

\* return warnings (check_pydantic_validation adds warnings of the PYDANTIC
\* kinds only; the files validated here declare no model)
PatternsReturn ==
    /\ vpc = "patterns"
    /\ block_index > Len(graphql_blocks)
    /\ vpc' = "done"
    /\ UNCHANGED <<vfile, schemas, cli, ventry, graphql_blocks, block_index,
                   fragment_definitions, stack, seen, warnings, sites, roots, classified,
                   picked, depths>>
    /\ UNCHANGED evars

\* a validator is called: its locals are fresh
Called(validator) ==
    /\ ventry' = validator
    /\ vpc' = "start"
    /\ graphql_blocks' = <<>>
    /\ block_index' = 0
    /\ fragment_definitions' = <<>>
    /\ stack' = <<>>
    /\ seen' = {}
    /\ warnings' = <<>>
    /\ sites' = <<>>
    /\ roots' = [admin |-> Unbound, storefront |-> Unbound]
    /\ classified' = NoClassification
    /\ picked' = <<>>

\* if self.schema_evolution and schemas: check_deprecated_and_removed_fields(...)
RunSchemaValidation ==
    /\ cli.running
    /\ vpc = "run"
    /\ cli.schema_evolution /\ Loaded(schemas)
    /\ Called("evolution")
    /\ UNCHANGED <<vfile, schemas, cli, depths>>
    /\ UNCHANGED evars

\* run_validation is past its schema-based step
SchemaStepOver ==
    \/ vpc = "run" /\ ~(cli.schema_evolution /\ Loaded(schemas))
    \/ vpc = "done" /\ ventry = "evolution"

\* the list the validator that ran last returned
ReturnedWarnings ==
    IF vpc # "done" THEN <<>>
    ELSE IF ventry = "surface" THEN warnings \o FoundOn("validation", Len(picked))
    ELSE warnings

\* if self.surface_validation: check_surface_validation(...) with schemas,
\* check_surface_validation_no_schemas(file_path) without
RunSurfaceValidation ==
    /\ cli.running
    /\ SchemaStepOver
    /\ cli.surface_validation
    /\ cli' = [cli EXCEPT !.file_warnings = @ \o ReturnedWarnings]
    /\ Called(IF Loaded(schemas) THEN "surface" ELSE "no_schemas")
    /\ UNCHANGED <<vfile, schemas, depths>>
    /\ UNCHANGED evars

\* the validators of the pass have run
PassOver ==
    \/ SchemaStepOver /\ ~cli.surface_validation
    \/ vpc = "done" /\ ventry \in {"surface", "no_schemas"}

\* warnings.extend(file_warnings) at the end of a pass
PassEnds ==
    cli' = [cli EXCEPT !.warnings = @ \o cli.file_warnings \o ReturnedWarnings,
                       !.reports = Append(@, cli.file_warnings \o ReturnedWarnings),
                       !.file_warnings = <<>>,
                       !.index = @ + 1]

\* for i, result in enumerate(results): the next file, file_warnings = []
RunNextFile ==
    /\ cli.running
    /\ PassOver
    /\ cli.index < Len(cli.files)
    /\ PassEnds
    /\ vfile' = cli.files[cli.index + 1]
    /\ vpc' = "run"
    /\ UNCHANGED <<schemas, ventry, graphql_blocks, block_index,
                   fragment_definitions, stack, seen, warnings, sites, roots, classified,
                   picked, depths>>
    /\ UNCHANGED evars

\* after the last file: return warnings
RunReturn ==
    /\ cli.running
    /\ PassOver
    /\ cli.index = Len(cli.files)
    /\ PassEnds
    /\ vpc' = "returned"
    /\ UNCHANGED <<vfile, schemas, ventry, graphql_blocks, block_index,
                   fragment_definitions, stack, seen, warnings, sites, roots, classified,
                   picked, depths>>
    /\ UNCHANGED evars

NextRunValidation ==
    \/ NextValidate
    \/ SurfaceWithoutSchemas
    \/ ExtractForPatterns
    \/ PatternBlockStep
    \/ PatternsReturn
    \/ RunSchemaValidation
    \/ RunSurfaceValidation
    \/ RunNextFile
    \/ RunReturn

SpecRunValidation == InitRunValidation /\ [][NextRunValidation]_vars

\* ------------------------------------------------------------------------
\* Extraction properties
\* ------------------------------------------------------------------------

SameKey(a, b) == GraphqlKey(a) = GraphqlKey(b)

\* C1: in the list returned for a file (extract_graphql_blocks on a host file,
\* extract_from_directory on a standalone operation file), of every pair of
\* extracted blocks with equal (kind, name, normalized body) exactly one
\* survives, and it is the one with the minimal start line.
C1_DedupKeepsEarliest ==
    (pc = "done" /\ (entry = "blocks" \/ CurFile.ext = "graphql")) =>
        \A i, j \in 1..Len(gql_blocks) :
            (i # j /\ SameKey(gql_blocks[i], gql_blocks[j])) =>
                LET kept == {k \in 1..Len(result) : SameKey(result[k], gql_blocks[i])} IN
                /\ Cardinality(kept) = 1
                /\ \A k \in kept : \A m \in 1..Len(gql_blocks) :
                       SameKey(gql_blocks[m], gql_blocks[i]) =>
                           result[k].start_line <= gql_blocks[m].start_line

\* C2: every returned block has 1 <= start_line <= end_line, and both lines
\* lie within the lines of the owning file.
C2_SpanValid ==
    pc = "done" =>
        \A i \in 1..Len(result) :
            /\ 1 <= result[i].start_line
            /\ result[i].start_line <= result[i].end_line
            /\ result[i].end_line <= FileLines(CurFile.text)

RECURSIVE Resolves(_, _)
\* every operand of the expression resolves to a string literal
Resolves(e, stmts) ==
    IF e.k = "Const" THEN TRUE
    ELSE IF e.k = "Name" THEN resolve_variable_from_source(e.id, stmts).ok
    ELSE Resolves(e.left, stmts) /\ Resolves(e.right, stmts)

\* the file is one assignment of a concatenation with an unresolvable operand
UnresolvedConcatFile(f) ==
    /\ f.ext = "py"
    /\ Len(f.stmts) = 1
    /\ f.stmts[1].form = "assign"
    /\ f.stmts[1].expr.k = "BinOp"
    /\ ~Resolves(f.stmts[1].expr, f.stmts)

\* C5: a concatenation with an operand that does not resolve to a string
\* literal yields no block, neither from the expression nor from a part of it.
C5_ConcatAllOrNothing ==
    (pc = "done" /\ UnresolvedConcatFile(CurFile)) => result = <<>>

\* C6: a second extraction of the same source text returns the same block
\* list in the same order as the first, whatever was extracted in between.
C6_Idempotent ==
    (pc = "done" /\ run > 1 /\ run % 2 = 1) => result = first_result

C6_Witness == pc = "done" /\ run = 3 /\ Len(result) > 1 /\ result = first_result

\* C7: a parser step on a string that fails to parse appends exactly one
\* UnknownError block (cleaned raw text, start_line = end_line, error text),
\* appends nothing else, keeps the blocks collected so far and lets the
\* extraction go on.
C7_ParseFailureYieldsOneUnknown ==
    [][ (ParserStep /\ ~parse(CleanBlock(Head(candidates).block)).ok) =>
          /\ Len(gql_blocks') = Len(gql_blocks) + 1
          /\ SubSeq(gql_blocks', 1, Len(gql_blocks)) = gql_blocks
          /\ LET b == gql_blocks'[Len(gql_blocks')] IN
             /\ b.type = "unknown"
             /\ b.raw = CleanBlock(Head(candidates).block)
             /\ b.start_line = b.end_line
             /\ b.error # None
          /\ pc' = "parsing" ]_vars

C7_Witness ==
    /\ pc = "parsing"
    /\ Len(gql_blocks) > 1
    /\ gql_blocks[Len(gql_blocks)].type = "unknown"
    /\ gql_blocks[1].type # "unknown"

\* ------------------------------------------------------------------------
\* Validation properties
\* ------------------------------------------------------------------------

\* the definition of a block that parses
BlockDefinition(raw) == parse(raw).defs[1]

\* the name of the type the selections of a definition start from
RootTypeName(defn, old_schema) ==
    IF defn.is_operation THEN get_root_type(defn.operation, old_schema).name
    ELSE defn.type_condition

HasField(schema, type_name, field_name) ==
    /\ type_name \in DOMAIN schema.types
    /\ schema.types[type_name].has_fields
    /\ field_name \in DOMAIN schema.types[type_name].fields

\* the definition is written against this surface: its root selection field
\* is in the surface's root type, or its type condition is a type of the surface
BelongsTo(defn, old_schema) ==
    /\ old_schema.loaded
    /\ IF defn.is_operation
       THEN /\ defn.selections[1].kind = "Field"
            /\ HasField(old_schema, RootTypeName(defn, old_schema), defn.selections[1].name)
       ELSE defn.type_condition \in DOMAIN old_schema.types

FieldTypeIn(schema, type_name, field_name) ==
    IF HasField(schema, type_name, field_name)
    THEN unwrap_type(schema.types[type_name].fields[field_name].type)
    ELSE None

RECURSIVE RemovedSites(_, _, _, _)
\* <<line, column>> of the field selections under sels, typed from type_name
\* on, whose field is in the old type and not in the new type of that name
RemovedSites(sels, type_name, old_schema, new_schema) ==
    UNION { IF sels[i].kind = "Field"
            THEN (IF /\ HasField(old_schema, type_name, sels[i].name)
                     /\ ~HasField(new_schema, type_name, sels[i].name)
                  THEN {<<sels[i].line, sels[i].column>>} ELSE {})
                 \cup RemovedSites(sels[i].selections,
                                   FieldTypeIn(old_schema, type_name, sels[i].name),
                                   old_schema, new_schema)
            ELSE IF sels[i].kind = "InlineFragment"
            THEN RemovedSites(sels[i].selections,
                              IF sels[i].type_condition = None THEN type_name
                              ELSE sels[i].type_condition,
                              old_schema, new_schema)
            ELSE {} : i \in 1..Len(sels) }

SurfaceSites(defn, old_schema, new_schema) ==
    IF BelongsTo(defn, old_schema)
    THEN RemovedSites(defn.selections, RootTypeName(defn, old_schema), old_schema, new_schema)
    ELSE {}

\* the reference sites of removed fields in the text of block b
BlockSites(b) ==
    IF parse(graphql_blocks[b].raw).ok
    THEN SurfaceSites(BlockDefinition(graphql_blocks[b].raw),
                      schemas.old_admin, schemas.new_admin)
         \cup SurfaceSites(BlockDefinition(graphql_blocks[b].raw),
                           schemas.old_storefront, schemas.new_storefront)
    ELSE {}

RemovedAt(i) == warnings[i].kind = "REMOVED"

\* C3: when the diff of a file is done, every selection of a field that is
\* in the old parent type and not in the new one has exactly one REMOVED
\* finding, and no two REMOVED findings share (file, line, column).
C3_OneRemovedPerSite ==
    vpc = "done" =>
        /\ \A b \in 1..Len(graphql_blocks) : \A p \in BlockSites(b) :
               Cardinality({i \in 1..Len(warnings) :
                               RemovedAt(i) /\ sites[i] = <<b, p[1], p[2]>>}) = 1
        /\ \A i, j \in 1..Len(warnings) :
               ( /\ RemovedAt(i) /\ RemovedAt(j)
                 /\ warnings[i].file = warnings[j].file
                 /\ warnings[i].line = warnings[j].line
                 /\ warnings[i].column = warnings[j].column ) => i = j

\* C4: whatever the fragment table, no walker call runs its body at a
\* recursion depth beyond 10, and once the walk of a block has started every
\* walker call it makes returns: the stack of pending calls empties.
C4_WalkBoundedAndTerminates ==
    /\ [](depths.ran <= MaxRecursionDepth)
    /\ [](vpc = "walking" => <>(stack = <<>>))

\* a fragment that spreads itself was walked down to the bound and cut there
C4_Witness ==
    /\ vpc = "done"
    /\ \E n \in DOMAIN fragment_definitions :
           \E i \in 1..Len(fragment_definitions[n].def.selections) :
               /\ fragment_definitions[n].def.selections[i].kind = "FragmentSpread"
               /\ fragment_definitions[n].def.selections[i].name = n
    /\ depths.ran = MaxRecursionDepth
    /\ depths.called = MaxRecursionDepth + 1

\* the schema the classifier was given for a surface
GivenSchema(schema) == IF classified.with_schemas THEN schema ELSE NoSchema

\* the surface the root selection field / the type condition is unique to
ExpectedSurface(defn) ==
    UniqueSurface(BelongsTo(defn, GivenSchema(schemas.old_admin)),
                  BelongsTo(defn, GivenSchema(schemas.old_storefront)))

\* C8: for an operation block (query, mutation, subscription; named,
\* anonymous or shorthand) the classifier returns the surface whose root type
\* of that kind holds the root selection field when exactly one surface does,
\* and Unknown when both or neither do.
C8_OperationClassifiedByRootField ==
    classified.block_type \in OpKeywords =>
        classified.result = ExpectedSurface(BlockDefinition(classified.raw))

\* C9: for a fragment block the classifier returns Admin exactly when only
\* the admin schema defines the type condition, Storefront exactly when only
\* the storefront schema does, and Unknown when both or neither do.
C9_FragmentClassifiedByTypeCondition ==
    classified.block_type = "fragment" =>
        classified.result = ExpectedSurface(BlockDefinition(classified.raw))

\* C10: a block classified Unknown is checked against both the Admin and
\* the Storefront schema pair on every path that checks it.
C10_UnknownChecksBothSurfaces ==
    \A i \in 1..Len(picked) :
        picked[i].client_type = "Unknown" =>
            picked[i].surfaces = {"Admin", "Storefront"}

\* the old field of a selection carries a deprecated flag or a reason
HasDeprecation(schema, type_name, field_name) ==
    /\ HasField(schema, type_name, field_name)
    /\ \/ schema.types[type_name].fields[field_name].is_deprecated
       \/ schema.types[type_name].fields[field_name].deprecation_reason # None

RECURSIVE DeprecatedSites(_, _, _)
\* <<line, column, reason>> of the field selections under sels, typed from
\* type_name on, that the walker reaches and whose old field is deprecated
DeprecatedSites(sels, type_name, old_schema) ==
    UNION { IF sels[i].kind = "Field"
            THEN (IF HasDeprecation(old_schema, type_name, sels[i].name)
                  THEN {<<sels[i].line, sels[i].column,
                          old_schema.types[type_name].fields[sels[i].name].deprecation_reason>>}
                  ELSE {})
                 \cup DeprecatedSites(sels[i].selections,
                                      FieldTypeIn(old_schema, type_name, sels[i].name),
                                      old_schema)
            ELSE IF sels[i].kind = "InlineFragment" /\ sels[i].type_condition # None
            THEN DeprecatedSites(sels[i].selections, sels[i].type_condition, old_schema)
            ELSE {} : i \in 1..Len(sels) }

SurfaceDeprecatedSites(defn, old_schema) ==
    IF BelongsTo(defn, old_schema)
    THEN DeprecatedSites(defn.selections, RootTypeName(defn, old_schema), old_schema)
    ELSE {}

\* the selections of deprecated fields in the text of block b
BlockDeprecatedSites(b) ==
    IF parse(graphql_blocks[b].raw).ok
    THEN SurfaceDeprecatedSites(BlockDefinition(graphql_blocks[b].raw), schemas.old_admin)
         \cup SurfaceDeprecatedSites(BlockDefinition(graphql_blocks[b].raw),
                                     schemas.old_storefront)
    ELSE {}

DeprecatedAt(i, b, p) ==
    /\ warnings[i].kind = "DEPRECATED"
    /\ sites[i] = <<b, p[1], p[2]>>

\* C11: when the diff of a file is done, every reached selection of a field
\* whose old-schema field is deprecated has exactly one DEPRECATED finding,
\* and the message of that finding holds the deprecation reason.
C11_OneDeprecatedPerSite ==
    vpc = "done" =>
        \A b \in 1..Len(graphql_blocks) : \A p \in BlockDeprecatedSites(b) :
            /\ Cardinality({i \in 1..Len(warnings) : DeprecatedAt(i, b, p)}) = 1
            /\ \A i \in 1..Len(warnings) :
                   DeprecatedAt(i, b, p) => warnings[i].reason[2] = p[3]

\* the base type of a field, read from the old type or else from the new one
FieldTypeEither(old_schema, new_schema, type_name, field_name) ==
    IF HasField(old_schema, type_name, field_name)
    THEN FieldTypeIn(old_schema, type_name, field_name)
    ELSE FieldTypeIn(new_schema, type_name, field_name)

RECURSIVE AddedSites(_, _, _, _)
\* <<line, column>> of the field selections under sels that the walker
\* reaches, typed from type_name on (the type looked up by its name in the
\* old and in the new schema), whose field the old type lacks and the new
\* type has
AddedSites(sels, type_name, old_schema, new_schema) ==
    UNION { IF sels[i].kind = "Field"
            THEN (IF /\ ~HasField(old_schema, type_name, sels[i].name)
                     /\ HasField(new_schema, type_name, sels[i].name)
                  THEN {<<sels[i].line, sels[i].column>>} ELSE {})
                 \cup AddedSites(sels[i].selections,
                                 FieldTypeEither(old_schema, new_schema, type_name,
                                                 sels[i].name),
                                 old_schema, new_schema)
            ELSE IF sels[i].kind = "InlineFragment" /\ sels[i].type_condition # None
            THEN AddedSites(sels[i].selections, sels[i].type_condition,
                            old_schema, new_schema)
            ELSE {} : i \in 1..Len(sels) }

\* the schema pairs block b was walked against
WalkedSurfaces(b) ==
    UNION { picked[i].surfaces : i \in {j \in 1..Len(picked) :
                                           /\ picked[j].path = "evolution"
                                           /\ picked[j].block = b} }

BlockAddedSites(b, surface) ==
    AddedSites(BlockDefinition(graphql_blocks[b].raw).selections,
               RootTypeName(BlockDefinition(graphql_blocks[b].raw),
                            OldSchema(schemas, surface)),
               OldSchema(schemas, surface), NewSchema(schemas, surface))

AddedAt(i) == warnings[i].kind = "ADDED"

\* C12: when the diff of a file is done, every reached selection of a field
\* that the old schema's parent type lacks and the new schema's type of
\* that name has carries an ADDED finding, and no ADDED finding names a
\* field that the old schema's parent type has.
C12_AddedWhenAbsentInOld ==
    vpc = "done" =>
        /\ \A b \in 1..Len(graphql_blocks) : \A surface \in WalkedSurfaces(b) :
               \A p \in BlockAddedSites(b, surface) :
                   \E i \in 1..Len(warnings) :
                       AddedAt(i) /\ sites[i] = <<b, p[1], p[2]>>
        /\ \A i \in 1..Len(warnings) :
               AddedAt(i) => ~HasField(OldSchema(schemas, warnings[i].client_info),
                                       warnings[i].type, warnings[i].field)

\* the file line of the selection a finding was raised for: the start line
\* of the block that holds the selection plus its line offset in the block
\* (the first line of the block has offset 0)
SelectionLine(i) == graphql_blocks[sites[i][1]].start_line + (sites[i][2] - 1)

\* C13: the line of every DEPRECATED / REMOVED / ADDED finding is the file
\* line on which the reported field selection sits.
C13_FindingLineIsSelectionLine ==
    \A i \in 1..Len(warnings) : warnings[i].line = SelectionLine(i)

\* C14: validating a file never raises: whatever the extracted blocks are,
\* a fragment as first block and names no schema knows included,
\* check_deprecated_and_removed_fields completes with its findings list.
C14_ValidationNeverRaises == vpc # "raised"

\* the blocks the strategies that need no parse tree find in a host file
\* (wrapped literal, keyword-named assignment, return statement)
RegexOnlyBlocks(f) ==
    deduplicate_and_sort_results(
        RunParser(RegexCandidates(f.stmts, f.text) \o ReturnRegexFallback(f.stmts, f.text, 1),
                  <<>>, f.text))

InResult(b) == \E i \in 1..Len(result) : result[i] = b

\* C15: for a host file whose parse tree cannot be built, a directory scan
\* and a single-file call both return an entry for the file, and the entry
\* holds the operations and fragments found by the regex-only strategies.
C15_SyntaxErrorFileKept ==
    ( /\ pc = "done"
      /\ entry \in {"single", "directory"}
      /\ CurFile.ext = "py"
      /\ ~SyntaxOk(CurFile.stmts) ) =>
        /\ returned = "entry"
        /\ \A i \in 1..Len(RegexOnlyBlocks(CurFile)) :
               RegexOnlyBlocks(CurFile)[i].type \in OperationTypes
                   => InResult(RegexOnlyBlocks(CurFile)[i])

\* an UnknownError block of the returned list stands for the collected one
KeptAsUnknown(b) ==
    \E i \in 1..Len(result) :
        /\ result[i].type = "unknown"
        /\ normalize_model_body(result[i].raw) = normalize_model_body(b.raw)

\* C16: when a call of an extraction entry point is over, every string that
\* failed to parse, collected as an UnknownError block, is in the block list
\* returned for the file.
C16_UnknownBlocksReturned ==
    pc = "done" =>
        \A i \in 1..Len(gql_blocks) :
            gql_blocks[i].type = "unknown" => KeptAsUnknown(gql_blocks[i])

\* C17: the list the Deduplicator returns, whatever the mix of operation,
\* fragment, UnknownError and model records it was given, is in ascending
\* start-line order from its first to its last element.
C17_DedupOutputAscending ==
    pc = "done" =>
        \A i, j \in 1..Len(result) :
            i < j => result[i].start_line <= result[j].start_line

\* two returned definitions of the same kind and the same name
Namesakes(a, b) ==
    /\ a.type \in OperationTypes
    /\ a.type = b.type
    /\ a.name # None
    /\ a.name = b.name

\* C18: of the definitions of a file that share name and kind the returned
\* list holds one only, the one with the earliest start line, whether their
\* bodies are the same or not.
C18_OneDefinitionPerNameAndKind ==
    pc = "done" =>
        /\ \A i, j \in 1..Len(result) : Namesakes(result[i], result[j]) => i = j
        /\ \A i \in 1..Len(result) : \A k \in 1..Len(gql_blocks) :
               Namesakes(result[i], gql_blocks[k])
                   => result[i].start_line <= gql_blocks[k].start_line

\* the list check_surface_validation returns: the warnings of
\* check_deprecated_and_removed_fields, then graphql_warnings block by block
\* (the files validated here declare no Pydantic model)
SurfaceResult == warnings \o FoundOn("validation", Len(picked))

SchemaBasedKinds == {"DEPRECATED", "REMOVED", "ADDED"}

SchemaBasedAt(key) ==
    {i \in 1..Len(warnings) :
        warnings[i].kind \in SchemaBasedKinds /\ LocationKey(warnings[i]) = key}

MessageOf(w) == <<w.kind, w.field, w.type, w.reason, w.client_info>>

\* C19: in the list check_surface_validation returns with schemas loaded, a
\* generic or pattern finding at the (file, line, column) of a schema-based
\* finding carries the message and level of a schema-based finding of that
\* location, and every pattern finding of a block at a location without a
\* schema-based finding is in the list.
C19_SchemaFindingSupersedesGeneric ==
    (ventry = "surface" /\ vpc = "done") =>
        /\ \A j \in 1..Len(FoundOn("validation", Len(picked))) :
               SchemaBasedAt(LocationKey(FoundOn("validation", Len(picked))[j])) # {} =>
                   \E i \in SchemaBasedAt(LocationKey(FoundOn("validation", Len(picked))[j])) :
                       /\ MessageOf(FoundOn("validation", Len(picked))[j]) = MessageOf(warnings[i])
                       /\ FoundOn("validation", Len(picked))[j].level = warnings[i].level
        /\ \A b \in 1..Len(graphql_blocks) :
               \A k \in 1..Len(check_graphql_patterns(graphql_blocks[b].raw, vfile,
                                                      graphql_blocks[b].start_line)) :
                   SchemaBasedAt(LocationKey(check_graphql_patterns(
                       graphql_blocks[b].raw, vfile, graphql_blocks[b].start_line)[k])) = {}
                   => \E j \in 1..Len(SurfaceResult) :
                          SurfaceResult[j] = check_graphql_patterns(
                              graphql_blocks[b].raw, vfile, graphql_blocks[b].start_line)[k]

\* the file holds an operation with one of the suspicious argument names
HoldsExtraArgument(f) ==
    \E b \in 1..Len(ExtractedBlocks(f)) :
        /\ ExtractedBlocks(f)[b].type \in OpKeywords
        /\ \E i \in 1..Len(ExtractedBlocks(f)[b].raw) : ExtraArgAt(ExtractedBlocks(f)[b].raw, i)

IsExtraArgument(w) == w.kind = "GRAPHQL_EXTRA_ARGUMENT"

\* file_warnings of the pass that ended last
LastReport == IF cli.reports = <<>> THEN <<>> ELSE cli.reports[Len(cli.reports)]

\* the surface validation of the file is over and gave back this list
SurfaceValidated(found) ==
    \/ cli.running /\ cli.surface_validation /\ vpc = "returned" /\ found = LastReport
    \/ ~cli.running /\ vpc = "done" /\ found = ReturnedWarnings

\* C20: with no schema loaded, the schema diff walker is never called, on
\* no path of run_validation or check_surface_validation_no_schemas, and the
\* surface validation of a file that holds an operation with a suspicious
\* argument such as customer(extraArg: 1) returns an extra-argument finding.
C20_NoSchemaPatternOnly ==
    ~Loaded(schemas) =>
        /\ stack = <<>>
        /\ depths.called = 0
        /\ \A found \in {LastReport, ReturnedWarnings} :
               (SurfaceValidated(found) /\ HoldsExtraArgument(vfile))
                   => \E i \in 1..Len(found) : IsExtraArgument(found[i])

IsSchemaFinding(w) == w.kind \in SchemaBasedKinds

\* C21: in the list run_validation returns for a file, whatever the
\* schema-evolution and surface-validation options, no two schema findings
\* have the same (file, line, column, type name, field name, reason,
\* category).
C21_ReturnedFindingsDistinct ==
    \A r \in 1..Len(cli.reports) :
        \A i, j \in 1..Len(cli.reports[r]) :
            ( /\ IsSchemaFinding(cli.reports[r][i])
              /\ IsSchemaFinding(cli.reports[r][j])
              /\ WarningKey(cli.reports[r][i]) = WarningKey(cli.reports[r][j]) ) => i = j

\* ------------------------------------------------------------------------
\* A scan of several files: the directory walk of extract_from_directory and
\* InteractiveCLI.run_extraction
\* ------------------------------------------------------------------------

MaxFiles == 2

HostFile(ss) == [ext |-> "py", stmts |-> ss, text |-> RenderFile(ss)]

\* the files a scan finds: host files with an operation, with a string that
\* does not parse and with a malformed statement, and operation files
ScannedFiles ==
    { HostFile(<<Stmt("assign", "q", Const("Q1", QA))>>),
      HostFile(<<Stmt("assign", "x", Const("Q1", Broken))>>),
      HostFile(<<Stmt("syntax_error", None, Name("("))>>) }
      \cup { [ext |-> "graphql", stmts |-> <<>>, text |-> t] :
               t \in { QA \o <<"NL">>, QALines \o <<"NL">> \o FragF \o <<"NL">>,
                       Broken \o <<"NL">> } }

\* a file of the scan: its path, whether open() and read() succeed on it,
\* and its content
Found == [path : 1..MaxFiles, readable : BOOLEAN, f : ScannedFiles]

\* the file lists os.walk / find_files give: every path once
FileLists ==
    { fs \in UNION { [1..n -> Found] : n \in 1..MaxFiles } :
        \A i, j \in 1..Len(fs) : fs[i].path = fs[j].path => i = j }

\* with open(file_path, "r", encoding="utf-8") as f: source = f.read()
ReadRaises(sf) == ~sf.readable

\* no handler around the loop body: the exception leaves the call
Propagate(raised) == raised

\* except Exception: pass (directory walk) / continue (run_extraction)
ExceptContinue(raised) == FALSE

\* the text of an operation file handed to the host-language functions:
\* ast.parse raises SyntaxError on an operation keyword followed by a name
\* or a brace, and the text holds no quoted literal
AsHostSource(f) ==
    IF f.ext = "graphql"
    THEN [ext |-> "py", stmts |-> <<Stmt("syntax_error", None, Name("("))>>, text |-> f.text]
    ELSE f

\* _extract_graphql_defs(source, 1, source.count("\n") + 1, gql_results)
WholeFileBlocks(f) ==
    RunParser(<<Cand(f.text, 1, CountTok(f.text, "NL") + 1, NoOffset, FALSE)>>, <<>>, f.text)

\* the loop body of the directory walk
DirectoryBody(f) ==
    IF f.ext = "graphql"
    THEN [graphql |-> WholeFileBlocks(f), pydantic_models |-> <<>>]
    ELSE [graphql |-> extract_graphql_blocks(f),
          pydantic_models |-> extract_pydantic_models(f)]

\* the loop body of InteractiveCLI.run_extraction
CliBody(f) ==
    [graphql |-> extract_graphql_blocks(AsHostSource(f)),
     pydantic_models |-> extract_pydantic_models(AsHostSource(f))]

FileEntry(path, body) ==
    [file |-> path, graphql |-> body.graphql, pydantic_models |-> body.pydantic_models]

InsertByFile(e, sorted) ==
    LET before == SelectSeq(sorted, LAMBDA x : x.file <= e.file)
        after  == SelectSeq(sorted, LAMBDA x : x.file > e.file)
    IN before \o <<e>> \o after

RECURSIVE SortByFile(_)
SortByFile(s) == IF s = <<>> THEN <<>> ELSE InsertByFile(Head(s), SortByFile(Tail(s)))

RECURSIVE FirstPerFile(_, _)
FirstPerFile(results, seen_files) ==
    IF results = <<>> THEN <<>>
    ELSE IF Head(results).file \in seen_files
         THEN FirstPerFile(Tail(results), seen_files)
         ELSE <<Head(results)>>
                \o FirstPerFile(Tail(results), seen_files \cup {Head(results).file})

\* deduplicate_and_sort_results on file entries
DedupFileResults(results) == SortByFile(FirstPerFile(results, {}))

\* extract_from_directory(path of one file): [] when anything raises
SingleFileReturn(sf) ==
    LET f == sf.f
        gql_results == IF f.ext = "graphql" THEN SingleFileGraphqlResults(f.text)
                       ELSE extract_graphql_blocks(f)
        model_results == IF f.ext = "graphql" THEN <<>> ELSE extract_pydantic_models(f)
        combined == gql_results \o model_results
    IN IF ReadRaises(sf) \/ DedupRaises(combined) THEN <<>>
       ELSE <<[file |-> sf.path,
               graphql |-> SelectSeq(deduplicate_and_sort_results(combined),
                                     LAMBDA r : r.type \in OperationTypes),
               pydantic_models |-> <<>>]>>

InitScan ==
    /\ IdleValidator
    /\ file = NoFile
    /\ other = NoFile
    /\ entry = "none"
    /\ run = 0
    /\ pc = "idle"
    /\ candidates = <<>>
    /\ gql_blocks = <<>>
    /\ result = <<>>
    /\ first_result = <<>>
    /\ returned = "none"
    /\ dfs = NoDfs
    /\ fetch = NoFetch
    /\ \E e \in {"directory", "cli"} : \E fs \in FileLists :
         scan = [entry |-> e, files |-> fs, index |-> 1, results |-> <<>>,
                 pc |-> "scanning", raised |-> FALSE, single |-> <<>>]

\* one pass of the loop over the files: try: read, extract, append; except
ScanFileStep ==
    /\ scan.pc = "scanning"
    /\ scan.index <= Len(scan.files)
    /\ LET sf == scan.files[scan.index]
           body == IF scan.entry = "cli" THEN CliBody(sf.f) ELSE DirectoryBody(sf.f)
           leaves == ExceptContinue(ReadRaises(sf))
       IN scan' = [scan EXCEPT
                     !.index = @ + 1,
                     !.results = IF /\ ~ReadRaises(sf)
                                    /\ (body.graphql # <<>> \/ body.pydantic_models # <<>>)
                                 THEN Append(@, FileEntry(sf.path, body))
                                 ELSE @,
                     !.raised = leaves,
                     !.pc = IF leaves THEN "raised" ELSE @]
    /\ UNCHANGED <<fetch, dfs, file, other, entry, run, pc, candidates, gql_blocks, result,
                   first_result, returned>>
    /\ UNCHANGED vvars

\* return deduplicate_and_sort_results(extracted) / return results
ScanReturn ==
    /\ scan.pc = "scanning"
    /\ scan.index > Len(scan.files)
    /\ scan' = [scan EXCEPT
                  !.results = IF scan.entry = "directory" THEN DedupFileResults(@) ELSE @,
                  !.pc = "returned"]
    /\ UNCHANGED <<fetch, dfs, file, other, entry, run, pc, candidates, gql_blocks, result,
                   first_result, returned>>
    /\ UNCHANGED vvars

\* extract_from_directory called with the path of the one file of the
\* directory
SingleFileCall ==
    /\ scan.pc = "returned"
    /\ scan.entry = "directory"
    /\ Len(scan.files) = 1
    /\ scan' = [scan EXCEPT !.single = SingleFileReturn(scan.files[1]), !.pc = "compared"]
    /\ UNCHANGED <<fetch, dfs, file, other, entry, run, pc, candidates, gql_blocks, result,
                   first_result, returned>>
    /\ UNCHANGED vvars

NextScan ==
    \/ ScanFileStep
    \/ ScanReturn
    \/ SingleFileCall

SpecScan == InitScan /\ [][NextScan]_vars

\* the entry a scan holds for the file it found at position i
EntriesOf(i) ==
    SelectSeq(scan.results, LAMBDA e : e.file = scan.files[i].path)

\* C22: on every entry point that reads files, a readable file with a
\* standalone-operation extension is parsed wholesale as one operation
\* document: once the scan is past the file, its entry holds the blocks of
\* the whole-text parse.
C22_OperationFilesParsedWholesale ==
    \A i \in 1..Len(scan.files) :
        ( /\ scan.pc \in {"scanning", "returned"}
          /\ i < scan.index
          /\ scan.files[i].readable
          /\ scan.files[i].f.ext = "graphql" )
        => /\ Len(EntriesOf(i)) = 1
           /\ EntriesOf(i)[1].graphql = WholeFileBlocks(scan.files[i].f)

\* what the loop body of the running scan extracts from a file
BodyOf(f) == IF scan.entry = "cli" THEN CliBody(f) ELSE DirectoryBody(f)

\* the entries a scan owes a file: none for a file that cannot be read or
\* that holds nothing, one otherwise
ExpectedEntries(sf) ==
    IF sf.readable /\ (BodyOf(sf.f).graphql # <<>> \/ BodyOf(sf.f).pydantic_models # <<>>)
    THEN <<FileEntry(sf.path, BodyOf(sf.f))>>
    ELSE <<>>

\* C23: a file that cannot be read contributes no entry and raises nothing
\* to the caller (the call on its own path returns the empty list), and
\* every other file of the scan has its entry in the returned list.
C23_UnreadableFileSkipped ==
    /\ scan.pc # "raised"
    /\ ~scan.raised
    /\ scan.pc \in {"returned", "compared"} =>
         \A i \in 1..Len(scan.files) : EntriesOf(i) = ExpectedEntries(scan.files[i])
    /\ (scan.pc = "compared" /\ ~scan.files[1].readable) => scan.single = <<>>

\* a scan of an unreadable file and a readable one has returned the entry
\* of the readable one
C23_Witness ==
    /\ scan.pc = "returned"
    /\ Len(scan.files) = 2
    /\ ~scan.files[1].readable
    /\ scan.files[2].readable
    /\ Len(scan.results) = 1
    /\ scan.results[1].file = scan.files[2].path

\* the run is over: run_validation has returned, or an exception has left it
RunOver == cli.running /\ vpc \in {"returned", "raised"}

\* what the run produced for the file at position i of its results
Report(i) == IF i <= Len(cli.reports) THEN <<"findings", cli.reports[i]>> ELSE <<"none">>

\* C24: the findings produced for a file depend only on its text and the
\* schema snapshots: two files of the same content get the same findings
\* wherever they stand in the run and whatever other file is validated
\* between them.
C24_PerFileResultsIndependent ==
    RunOver =>
        \A i, j \in 1..Len(cli.files) :
            cli.files[i] = cli.files[j] => Report(i) = Report(j)

\* a top-level assignment of a quoted literal to a name, not wrapped in gql()
PlainStringAssignment(st) == st.form = "assign" /\ st.expr.k = "Const"

\* extract_graphql_blocks has returned the blocks of a host file that holds
\* plain string assignments only
PlainAssignmentsExtracted ==
    /\ pc = "done"
    /\ entry = "blocks"
    /\ run = 1
    /\ \A n \in 1..Len(file.stmts) : PlainStringAssignment(file.stmts[n])

\* C25: a plain string assignment yields a block only when the
\* string begins with an operation keyword and has balanced braces; a string
\* that begins with no operation keyword yields no block, not even an
\* UnknownError.
C25_BlockOnlyForLeadingKeyword ==
    PlainAssignmentsExtracted =>
        ( result # <<>> =>
            \E n \in 1..Len(file.stmts) :
                /\ StartsWithKeyword(Decode(file.stmts[n].expr.toks))
                /\ BalancedBraces(Decode(file.stmts[n].expr.toks)) )

\* the next call of traverse_schema to run, at this recursion depth or beyond
\* the cap
CallPending == vpc = "walking" /\ stack # <<>>

BeyondCap == CallPending /\ Head(stack).recursion_depth > MaxRecursionDepth

\* C26: a walker call entered beyond the depth cap returns without a
\* finding, with the dedup set as it was and without raising, the pending
\* sibling calls stay as they are, and a call at a depth of at most 10 (the
\* root selections of an operation are called at depth 1, every enclosing
\* field, inline fragment or spread adds one) runs its body.
C26_CutCallLeavesNoTrace ==
    [][ /\ BeyondCap =>
            /\ warnings' = warnings
            /\ seen' = seen
            /\ sites' = sites
            /\ vpc' = "walking"
            /\ stack' = Tail(stack)
        /\ (CallPending /\ ~BeyondCap) =>
            /\ depths'.ran >= Head(stack).recursion_depth
            /\ vpc' = "walking" ]_vars

\* a call beyond the cap has returned while findings were on the list and
\* sibling calls were pending
C26_Witness ==
    /\ vpc = "walking"
    /\ depths.called = MaxRecursionDepth + 1
    /\ depths.ran = MaxRecursionDepth
    /\ warnings # <<>>
    /\ stack # <<>>

\* the blocks of the file that define the fragment of this name
FragmentBlocks(name) ==
    {b \in 1..Len(graphql_blocks) :
        graphql_blocks[b].type = "fragment" /\ graphql_blocks[b].name = name}

\* the call to run next is a fragment spread within the depth cap, and some
\* block of the file defines the fragment
SpreadOfDefinedFragment ==
    /\ CallPending
    /\ ~BeyondCap
    /\ Head(stack).node.kind = "FragmentSpread"
    /\ FragmentBlocks(Head(stack).node.name) # {}

\* the type the fragment's selections are checked against on the surface of
\* the running call
ConditionType(name) ==
    OrType(get_type(OldSchema(schemas, Head(stack).schema_name),
                    fragment_definitions[name].def.type_condition),
           get_type(NewSchema(schemas, Head(stack).schema_name),
                    fragment_definitions[name].def.type_condition))

\* C27: from the first pass on, before any block is walked, the fragment
\* table holds every fragment a block of the file defines, whatever the
\* position of the block; a spread of such a fragment is resolved: the walker
\* calls itself on each selection of the fragment, with the type of the
\* fragment's type condition as parent type.
C27_SpreadResolvedAnywhere ==
    /\ [](vpc \in {"blocks", "walking"} =>
            \A b \in 1..Len(graphql_blocks) :
                graphql_blocks[b].type = "fragment" =>
                    /\ graphql_blocks[b].name \in DOMAIN fragment_definitions
                    /\ \E d \in FragmentBlocks(graphql_blocks[b].name) :
                           /\ fragment_definitions[graphql_blocks[b].name].origin = d
                           /\ fragment_definitions[graphql_blocks[b].name].def
                                  = BlockDefinition(graphql_blocks[d].raw))
    /\ [][ SpreadOfDefinedFragment =>
             /\ Len(stack') = Len(stack) - 1
                    + Len(fragment_definitions[Head(stack).node.name].def.selections)
             /\ \A k \in 1..Len(fragment_definitions[Head(stack).node.name].def.selections) :
                    /\ stack'[k].node
                           = fragment_definitions[Head(stack).node.name].def.selections[k]
                    /\ stack'[k].parent_type = ConditionType(Head(stack).node.name) ]_vars

\* the operation of the first block spread a fragment that the second block
\* defines: the calls on the fragment's selections are pending
C27_Witness ==
    /\ vpc = "walking"
    /\ block_index = 1
    /\ graphql_blocks[1].type = "query"
    /\ FragmentBlocks("S") = {2}
    /\ stack # <<>>
    /\ Head(stack).origin = 2

\* ------------------------------------------------------------------------
\* is_pydantic_model: the recursive search through the inheritance map
\* ------------------------------------------------------------------------

MaxBases == 2

ClassNames == {"A", "B", "C"}

\* basemodel_aliases | rootmodel_aliases when the file imports neither under
\* another name
ModelAliases == {"BaseModel", "RootModel"}

BaseLists == UNION { [1..n -> ClassNames \cup ModelAliases] : n \in 0..MaxBases }

\* build_class_inheritance: class name -> list of base names; self-referential
\* and cyclic maps are among them
InheritanceMaps == [ClassNames -> BaseLists]

\* inheritance.get(class_name, [])
BasesOf(inheritance, class_name) ==
    IF class_name \in DOMAIN inheritance THEN inheritance[class_name] ELSE <<>>

\* the loop gives up after the first base that is no model
StopAfterFirst(i, n) == n + 1

\* for base in bases: the next base
NextBase(i, n) == i + 1

InitPydantic ==
    /\ IdleValidator
    /\ file = NoFile
    /\ other = NoFile
    /\ entry = "none"
    /\ run = 0
    /\ pc = "idle"
    /\ candidates = <<>>
    /\ gql_blocks = <<>>
    /\ result = <<>>
    /\ first_result = <<>>
    /\ returned = "none"
    /\ scan = NoScan
    /\ fetch = NoFetch
    /\ \E m \in InheritanceMaps :
         dfs = [inheritance |-> m, arg |-> "A", seen |-> {}, stack |-> <<>>, pc |-> "call",
                result |-> None]

DfsUnchanged ==
    /\ UNCHANGED <<fetch, scan, file, other, entry, run, pc, candidates, gql_blocks, result,
                   first_result, returned>>
    /\ UNCHANGED vvars

TopFrame == dfs.stack[Len(dfs.stack)]

Pop(frames) == SubSeq(frames, 1, Len(frames) - 1)

\* if class_name in seen: return False
EnterSeen ==
    /\ dfs.pc = "call"
    /\ dfs.arg \in dfs.seen
    /\ dfs' = [dfs EXCEPT !.pc = "false"]
    /\ DfsUnchanged

\* seen.add(class_name); bases = inheritance.get(class_name, [])
EnterNew ==
    /\ dfs.pc = "call"
    /\ dfs.arg \notin dfs.seen
    /\ dfs' = [dfs EXCEPT !.seen = @ \cup {dfs.arg},
                          !.stack = Append(@, [class_name |-> dfs.arg, i |-> 1]),
                          !.pc = "loop"]
    /\ DfsUnchanged

\* if base in basemodel_aliases or base in rootmodel_aliases: return True
LoopAlias ==
    /\ dfs.pc = "loop"
    /\ TopFrame.i <= Len(BasesOf(dfs.inheritance, TopFrame.class_name))
    /\ BasesOf(dfs.inheritance, TopFrame.class_name)[TopFrame.i] \in ModelAliases
    /\ dfs' = [dfs EXCEPT !.stack = Pop(@), !.pc = "true"]
    /\ DfsUnchanged

\* if is_pydantic_model(base, inheritance, ..., seen): the recursive call
LoopCall ==
    /\ dfs.pc = "loop"
    /\ TopFrame.i <= Len(BasesOf(dfs.inheritance, TopFrame.class_name))
    /\ BasesOf(dfs.inheritance, TopFrame.class_name)[TopFrame.i] \notin ModelAliases
    /\ dfs' = [dfs EXCEPT !.arg = BasesOf(dfs.inheritance, TopFrame.class_name)[TopFrame.i],
                          !.pc = "call"]
    /\ DfsUnchanged

\* the loop is over: return False
LoopEnd ==
    /\ dfs.pc = "loop"
    /\ TopFrame.i > Len(BasesOf(dfs.inheritance, TopFrame.class_name))
    /\ dfs' = [dfs EXCEPT !.stack = Pop(@), !.pc = "false"]
    /\ DfsUnchanged

\* a call returned False: the caller's loop goes on, the outermost call
\* returns False
ReturnedFalse ==
    /\ dfs.pc = "false"
    /\ dfs' = IF dfs.stack = <<>>
              THEN [dfs EXCEPT !.pc = "returned", !.result = FALSE]
              ELSE [dfs EXCEPT
                      !.stack[Len(dfs.stack)].i =
                          NextBase(@, Len(BasesOf(dfs.inheritance, TopFrame.class_name))),
                      !.pc = "loop"]
    /\ DfsUnchanged

\* a call returned True: the caller returns True
ReturnedTrue ==
    /\ dfs.pc = "true"
    /\ dfs' = IF dfs.stack = <<>>
              THEN [dfs EXCEPT !.pc = "returned", !.result = TRUE]
              ELSE [dfs EXCEPT !.stack = Pop(@)]
    /\ DfsUnchanged

NextPydantic ==
    \/ EnterSeen
    \/ EnterNew
    \/ LoopAlias
    \/ LoopCall
    \/ LoopEnd
    \/ ReturnedFalse
    \/ ReturnedTrue

\* the call is synchronous: a step that can be taken is taken
SpecPydantic == InitPydantic /\ [][NextPydantic]_vars /\ WF_vars(NextPydantic)

RECURSIVE ReachableFrom(_, _)
\* the names reachable from the names of start through base-name edges, the
\* names of start included
ReachableFrom(inheritance, start) ==
    LET next == start \cup UNION { { BasesOf(inheritance, c)[i] :
                                       i \in 1..Len(BasesOf(inheritance, c)) } : c \in start }
    IN IF next = start THEN start ELSE ReachableFrom(inheritance, next)

\* some class reachable from class_name lists an alias among its direct bases
InheritsModel(inheritance, class_name) ==
    \E c \in ReachableFrom(inheritance, {class_name}) :
        \E i \in 1..Len(BasesOf(inheritance, c)) : BasesOf(inheritance, c)[i] \in ModelAliases

\* C28: is_pydantic_model terminates for every inheritance map, cyclic and
\* self-referential ones included, and returns True exactly when a class
\* reachable from the given class through base-name edges (the class itself
\* included) lists a BaseModel or RootModel alias among its direct bases.
C28_PydanticSearchTerminatesAndDecides ==
    /\ <>(dfs.pc = "returned")
    /\ [](dfs.pc = "returned" => dfs.result = InheritsModel(dfs.inheritance, "A"))

\* the search returned True for a class on a cycle A -> B -> A whose base B
\* reaches the alias only behind the cycle
C28_Witness ==
    /\ dfs.pc = "returned"
    /\ dfs.result = TRUE
    /\ dfs.inheritance["A"] = <<"B">>
    /\ dfs.inheritance["B"] = <<"A", "C">>
    /\ dfs.inheritance["C"] = <<"RootModel">>

\* kind, name, raw body and line span of the blocks of the one entry of a
\* returned list; no block when the list holds no entry
BlockSpans(entries) ==
    IF entries = <<>> THEN <<>>
    ELSE [k \in 1..Len(entries[1].graphql) |->
            <<entries[1].graphql[k].type, entries[1].graphql[k].name,
              entries[1].graphql[k].raw, entries[1].graphql[k].start_line,
              entries[1].graphql[k].end_line>>]

ModelsOf(entries) == IF entries = <<>> THEN <<>> ELSE entries[1].pydantic_models

\* C29: for a readable file, extract_from_directory called with the path of
\* the file and called with a directory that holds only that file return
\* the same blocks (kinds, names, raw bodies, line spans) and the same model
\* definitions.
C29_SinglePathEqualsDirectoryScan ==
    (scan.pc = "compared" /\ scan.files[1].readable) =>
        /\ BlockSpans(scan.single) = BlockSpans(scan.results)
        /\ ModelsOf(scan.single) = ModelsOf(scan.results)

\* ------------------------------------------------------------------------
\* fetch_schema_from_shopify: the retry loop around the fetch command
\* ------------------------------------------------------------------------

MaxRetries == 4

\* how one run of the command ends: exit 0 with a schema on stdout
\* ("schema"), exit 0 with text that is no JSON ("not_json"), exit 0 with
\* "error" or "not found" on stderr ("stderr_error"), exit 0 with a JSON
\* object that has "errors" ("errors_json"), the tool is missing
\* ("not_found"), another OSError of subprocess.run ("os_error"), a
\* non-zero exit ("failed")
CommandOutcomes ==
    {"schema", "not_json", "stderr_error", "errors_json", "not_found", "os_error", "failed"}

InitFetch ==
    /\ IdleValidator
    /\ file = NoFile
    /\ other = NoFile
    /\ entry = "none"
    /\ run = 0
    /\ pc = "idle"
    /\ candidates = <<>>
    /\ gql_blocks = <<>>
    /\ result = <<>>
    /\ first_result = <<>>
    /\ returned = "none"
    /\ scan = NoScan
    /\ dfs = NoDfs
    \* with_header: token_header and token are both given, so that the
    \* command carries --header; attempts = 0 before the loop
    /\ fetch \in [retries : 0..MaxRetries, with_header : BOOLEAN, attempts : {0},
                  outcomes : {<<>>}, pc : {"loop"}, returns : {None}, raises : {None}]

FetchUnchanged ==
    /\ UNCHANGED <<dfs, scan, file, other, entry, run, pc, candidates, gql_blocks, result,
                   first_result, returned>>
    /\ UNCHANGED vvars

\* while attempts < retries: subprocess.run(cmd, ..., check=True)
CommandRuns(outcome) ==
    /\ fetch.pc = "loop"
    /\ fetch.attempts < fetch.retries
    /\ outcome \in CommandOutcomes

\* return result.stdout: the schema, or output that is no JSON as it is
CommandSucceeds ==
    \E o \in {"schema", "not_json"} :
        /\ CommandRuns(o)
        /\ fetch' = [fetch EXCEPT !.outcomes = Append(@, o), !.pc = "returned",
                                  !.returns = "stdout"]
        /\ FetchUnchanged

\* raise RuntimeError("Shopify schema fetch returned an error..."): no except
\* clause of the loop catches it
CommandReportsError ==
    \E o \in {"stderr_error", "errors_json"} :
        /\ CommandRuns(o)
        /\ fetch' = [fetch EXCEPT !.outcomes = Append(@, o), !.pc = "raised",
                                  !.raises = "RuntimeError"]
        /\ FetchUnchanged

\* except FileNotFoundError: raise RuntimeError(...)
CommandNotFound ==
    /\ CommandRuns("not_found")
    /\ fetch' = [fetch EXCEPT !.outcomes = Append(@, "not_found"), !.pc = "raised",
                              !.raises = "RuntimeError"]
    /\ FetchUnchanged

\* an OSError that is no FileNotFoundError (the tool is not executable): no
\* except clause matches
CommandOsError ==
    /\ CommandRuns("os_error")
    /\ fetch' = [fetch EXCEPT !.outcomes = Append(@, "os_error"), !.pc = "raised",
                              !.raises = "OSError"]
    /\ FetchUnchanged

\* except subprocess.CalledProcessError: attempts += 1; raise RuntimeError
\* after the last attempt, else time.sleep(delay) and the next pass
CommandFails ==
    /\ CommandRuns("failed")
    /\ fetch' = [fetch EXCEPT
                   !.outcomes = Append(@, "failed"),
                   !.attempts = @ + 1,
                   !.pc = IF fetch.attempts + 1 >= fetch.retries THEN "raised" ELSE "loop",
                   !.raises = IF fetch.attempts + 1 >= fetch.retries THEN "RuntimeError"
                              ELSE None]
    /\ FetchUnchanged

\* the while condition is false: the function body ends, the call returns
\* None
LoopFallsThrough ==
    /\ fetch.pc = "loop"
    /\ ~(fetch.attempts < fetch.retries)
    /\ fetch' = [fetch EXCEPT !.pc = "returned", !.returns = None]
    /\ FetchUnchanged

NextFetch ==
    \/ CommandSucceeds
    \/ CommandReportsError
    \/ CommandNotFound
    \/ CommandOsError
    \/ CommandFails
    \/ LoopFallsThrough

SpecFetch == InitFetch /\ [][NextFetch]_vars

\* C30: for every value of retries, the fetch command runs at most retries
\* times, each run but the last one failed, and the call ends by returning
\* the fetched text or by raising RuntimeError, never by returning nothing.
C30_FetchReturnsSchemaOrRaises ==
    /\ Len(fetch.outcomes) <= fetch.retries
    /\ \A i \in 1..(Len(fetch.outcomes) - 1) : fetch.outcomes[i] = "failed"
    /\ fetch.pc = "returned" => fetch.returns = "stdout"
    /\ fetch.pc = "raised" => fetch.raises = "RuntimeError"

====
